---- MODULE Spec2Model ----
(***************************************************************************)
(* FlowPrint: the hierarchical task store (src/store/useTaskStore.ts).     *)
(*                                                                         *)
(* Task ids are modelled as positive integers: 1..5 are the sample tasks   *)
(* 'task-1'..'task-5' of initialCoreState, larger numbers are ids that a   *)
(* caller generates with uuidv4().  Null (0) is JavaScript's null.         *)
(* Instants (Date values) are positive integers.  `now` is the instant of   *)
(* the latest event (construction or a store operation); every operation   *)
(* happens at the next instant, Instant, which is what `new Date()` and    *)
(* Date.now() return inside it.                                            *)
(*                                                                         *)
(* The Board component (src/components/Board.tsx) drives the store from    *)
(* its event handlers; its own state selectedTaskHierarchy is part of the  *)
(* model, and uuids counts the ids uuidv4() has handed to the handlers.    *)
(*                                                                         *)
(* The DataManagementPanel (src/components/DataManagementPanel.tsx) writes  *)
(* the store to a JSON file and reads one back; downloads are the files it *)
(* has written.  The clock counts ticks, TicksPerDay of them to a day, from *)
(* 1970-01-01T00:00 on, and the local time zone is UTC.                    *)
(*                                                                         *)
(* PrintSettings (src/components/PrintSettings.tsx) drives the printer     *)
(* service (src/services/PrinterService.ts); printer holds the fields of   *)
(* the service, the isConnected state of the component and the printRaw    *)
(* calls that have not returned.                                           *)
(***************************************************************************)
EXTENDS Integers, Sequences, FiniteSets, TLC

\* ---- bounds of the model ----
MaxNewIds == 1
MaxOps == 2
MaxHierarchy == 5
MaxEvents == 4
MaxDownloads == 1
TicksPerDay == 4
MaxSplitTime == 4

\* ---- values ----
Null == 0
NumSampleTasks == 5
MaxColumns == 5
CURRENT_DATA_VERSION == 1

TaskIds == 1..(NumSampleTasks + MaxNewIds)
ParentIds == TaskIds \cup {Null}
TemplateIds == {"template-morning", "template-project-kickoff"}
TemplateIdInputs == TemplateIds \cup {"template-absent"}

VARIABLES tasks, rootTaskIds, columns, selectedTaskId, editingTaskId,
          taskTemplates, selectedTaskHierarchy, uuids, downloads, printer,
          now, nOps, lastOp, prev, toggleRun

vars == <<tasks, rootTaskIds, columns, selectedTaskId, editingTaskId,
          taskTemplates, selectedTaskHierarchy, uuids, downloads, printer,
          now, nOps, lastOp, prev, toggleRun>>

\* ---- helpers for JavaScript arrays and objects ----

\* array.includes(x)
Includes(seq, x) == \E i \in 1..Len(seq) : seq[i] = x

\* array.filter(id => id !== x)
FilterOut(seq, x) == SelectSeq(seq, LAMBDA e : e # x)

\* Array.from(new Set(seq)): the first occurrence of every element, in order
RECURSIVE Dedup(_)
Dedup(seq) ==
  IF seq = <<>> THEN <<>>
  ELSE LET init == Dedup(SubSeq(seq, 1, Len(seq) - 1))
           last == seq[Len(seq)]
       IN IF Includes(init, last) THEN init ELSE Append(init, last)

\* { ...obj, [k]: v }
Put(obj, k, v) == [x \in DOMAIN obj \cup {k} |-> IF x = k THEN v ELSE obj[x]]

\* delete obj[k]
Delete(obj, k) == [x \in DOMAIN obj \ {k} |-> obj[x]]

\* { ...task, ...partial }
Merge(task, partial) ==
  [f \in DOMAIN task \cup DOMAIN partial |->
     IF f \in DOMAIN partial THEN partial[f] ELSE task[f]]

\* number of occurrences of x in seq
Count(seq, x) == Cardinality({i \in 1..Len(seq) : seq[i] = x})

\* ---- the Task entity ----
Task(id, title, completed, parentId, childrenIds, createdAt, completedAt) ==
  [id |-> id, title |-> title, completed |-> completed, parentId |-> parentId,
   childrenIds |-> childrenIds, createdAt |-> createdAt, completedAt |-> completedAt]

\* ---- initialCoreState ----
TemplateDef(children) == [title |-> "def", children |-> children]

InitialTemplates ==
  [t \in TemplateIds |->
     IF t = "template-morning"
     THEN [id |-> t, tasks |-> <<TemplateDef(<<>>), TemplateDef(<<>>),
                                 TemplateDef(<<>>), TemplateDef(<<>>)>>]
     ELSE [id |-> t, tasks |-> <<TemplateDef(<<>>),
                                 TemplateDef(<<TemplateDef(<<>>), TemplateDef(<<>>)>>),
                                 TemplateDef(<<>>), TemplateDef(<<>>)>>]]

InitialTasks(t0) ==
  [i \in 1..NumSampleTasks |->
     CASE i = 1 -> Task(1, "sample", FALSE, Null, <<2, 3>>, t0, Null)
       [] i = 2 -> Task(2, "sample", FALSE, 1, <<>>, t0, Null)
       [] i = 3 -> Task(3, "sample", FALSE, 1, <<4>>, t0, Null)
       [] i = 4 -> Task(4, "sample", TRUE, 3, <<>>, t0, t0)
       [] OTHER -> Task(5, "sample", FALSE, Null, <<>>, t0, Null)]

InitialRootTaskIds == <<1, 5>>

\* ---- history (not program state): the last store operation and the store before it ----
Snapshot == [tasks |-> tasks, rootTaskIds |-> rootTaskIds, columns |-> columns,
             selectedTaskId |-> selectedTaskId, editingTaskId |-> editingTaskId,
             taskTemplates |-> taskTemplates]

\* new Date() inside the operation that is about to run
Instant == now + 1

\* An operation as the history keeps it: its name, its arguments (those it does not
\* take are Null or empty), the instant it ran at, whether it threw and what it returned
\* (<<>> for an operation that returns nothing).  For the import: the documents it was
\* given (one, or none), the user's answer to the version question, whether importState
\* was called and whether it returned true.
Op(name, id, parentId, templateId, at) ==
  [op |-> name, id |-> id, parentId |-> parentId, templateId |-> templateId, at |-> at,
   partial |-> <<>>, hierarchy |-> <<>>, columnId |-> Null,
   threw |-> FALSE, returned |-> <<>>,
   data |-> <<>>, proceed |-> FALSE, called |-> FALSE, success |-> FALSE]

CanStep == nOps < MaxOps

\* toggleRun: the run of consecutive toggleTaskCompletion calls on one existing task that
\* ends with the last operation: its task, its length (1 or 2), the completion fields the
\* task had before the run and the instant of the run's first call
NoRun == [id |-> Null, len |-> 0, completed |-> FALSE, completedAt |-> Null, firstAt |-> Null]

NextRun(name, id) ==
  IF name = "toggleTaskCompletion" /\ id \in DOMAIN tasks
  THEN IF toggleRun.id = id /\ toggleRun.len = 1
       THEN [toggleRun EXCEPT !.len = 2]
       ELSE [id |-> id, len |-> 1, completed |-> tasks[id].completed,
             completedAt |-> tasks[id].completedAt, firstAt |-> Instant]
  ELSE NoRun

RecordOp(op) ==
  /\ nOps' = nOps + 1
  /\ now' = Instant
  /\ lastOp' = op
  /\ prev' = Snapshot
  /\ toggleRun' = NextRun(op.op, op.id)

\* the printer: PrinterService's fields (device is "null", or a device that is "opened"
\* or "closed"; interfaceNumber and endpointOut are TRUE when they are not null),
\* PrintSettings' isConnected state, the printRaw calls that have not returned yet and
\* the printRaw call that returned last
NoCall == [handler |-> "", awaits |-> "", transfers |-> 0, clearHalts |-> 0]

NoPrinter ==
  [device |-> "null", interfaceNumber |-> FALSE, endpointOut |-> FALSE,
   isConnected |-> FALSE, calls |-> <<>>, last |-> NoCall]

\* a store operation that is called directly: the Board takes no part in it
BoardIdle == UNCHANGED <<selectedTaskHierarchy, uuids, downloads, printer>>

Record(name, id, parentId, templateId) ==
  RecordOp(Op(name, id, parentId, templateId, Instant)) /\ BoardIdle

\* the state after construction at the instant t0
InitAt(t0) ==
  /\ now = t0
  /\ tasks = InitialTasks(t0)
  /\ rootTaskIds = InitialRootTaskIds
  /\ taskTemplates = InitialTemplates
  /\ columns = <<>>
  /\ selectedTaskId = Null
  /\ editingTaskId = Null
  /\ selectedTaskHierarchy = <<>>
  /\ uuids = 0
  /\ downloads = <<>>
  /\ printer = NoPrinter
  /\ nOps = 0
  /\ lastOp = Op("init", Null, Null, "", t0)
  /\ prev = Snapshot
  /\ toggleRun = NoRun

Init == InitAt(1)

\* ---- store operations ----

setSelectedTaskId(taskId) ==
  /\ selectedTaskId' = taskId
  /\ UNCHANGED <<tasks, rootTaskIds, columns, editingTaskId, taskTemplates>>
  /\ Record("setSelectedTaskId", taskId, Null, "")

setEditingTaskId(taskId) ==
  /\ editingTaskId' = taskId
  /\ UNCHANGED <<tasks, rootTaskIds, columns, selectedTaskId, taskTemplates>>
  /\ Record("setEditingTaskId", taskId, Null, "")

\* the tasks mapping addTask returns
addTaskTasks(task) ==
  LET newTasks == Put(tasks, task.id, task)
  IN IF task.parentId = Null
     THEN newTasks
     ELSE IF task.parentId \in DOMAIN newTasks
          THEN LET parent == newTasks[task.parentId]
               IN Put(newTasks, task.parentId,
                      [parent EXCEPT !.childrenIds = Dedup(Append(parent.childrenIds, task.id))])
          ELSE newTasks

\* mutant of addTaskRootTaskIds: the includes() test before the push is missing
addTaskRootTaskIds_AlwaysPush(task) ==
  IF task.parentId = Null THEN Append(rootTaskIds, task.id) ELSE rootTaskIds

\* the rootTaskIds addTask returns
addTaskRootTaskIds(task) ==
  IF task.parentId = Null
  THEN IF ~Includes(rootTaskIds, task.id) THEN Append(rootTaskIds, task.id) ELSE rootTaskIds
  ELSE rootTaskIds

addTask(task) ==
  /\ tasks' = addTaskTasks(task)
  /\ rootTaskIds' = addTaskRootTaskIds(task)
  /\ UNCHANGED <<columns, selectedTaskId, editingTaskId, taskTemplates>>
  /\ Record("addTask", task.id, task.parentId, "")

\* the tasks a caller hands to addTask: a new or an already used id, any parentId,
\* and, as every caller in the repository builds them, no children, not completed,
\* created at the instant of the call
TaskInputs ==
  {Task(id, "sample", FALSE, p, <<>>, Instant, Null) : id \in TaskIds, p \in ParentIds}

\* mutant of restOfProperties: createdAt is not taken out of the partial
restOfProperties_KeepsCreatedAt(updatedProperties) == updatedProperties

\* const { createdAt, ...restOfProperties } = updatedProperties
restOfProperties(updatedProperties) ==
  [f \in DOMAIN updatedProperties \ {"createdAt"} |-> updatedProperties[f]]

\* mutant of updateTaskTasks: the test for an absent task is missing, the task is created
updateTaskTasks_NoGuard(taskId, updatedProperties) ==
  Put(tasks, taskId,
      Merge(IF taskId \in DOMAIN tasks THEN tasks[taskId]
            ELSE Task(taskId, "", FALSE, Null, <<>>, Instant, Null),
            restOfProperties(updatedProperties)))

\* the tasks mapping updateTask returns
updateTaskTasks(taskId, updatedProperties) ==
  IF taskId \notin DOMAIN tasks
  THEN tasks
  ELSE Put(tasks, taskId, Merge(tasks[taskId], restOfProperties(updatedProperties)))

updateTask(taskId, updatedProperties) ==
  /\ tasks' = updateTaskTasks(taskId, updatedProperties)
  /\ UNCHANGED <<rootTaskIds, columns, selectedTaskId, editingTaskId, taskTemplates>>
  /\ RecordOp([Op("updateTask", taskId,
                    IF "parentId" \in DOMAIN updatedProperties
                    THEN updatedProperties.parentId ELSE Null, "", Instant)
                 EXCEPT !.partial = updatedProperties])
  /\ BoardIdle

\* the Partial<Task> values a caller hands to updateTask
PartialInputs ==
  {[title |-> "edited"], [title |-> "edited", createdAt |-> Instant]}
    \cup {[parentId |-> p] : p \in ParentIds}

\* mutant of deleteTaskTasks: the parent's childrenIds are not filtered
deleteTaskTasks_KeepsParentLink(taskId) ==
  IF taskId \notin DOMAIN tasks THEN tasks ELSE Delete(tasks, taskId)

\* the tasks mapping deleteTask returns
deleteTaskTasks(taskId) ==
  IF taskId \notin DOMAIN tasks
  THEN tasks
  ELSE LET taskToDelete == tasks[taskId]
           newTasks == Delete(tasks, taskId)
       IN IF taskToDelete.parentId # Null /\ taskToDelete.parentId \in DOMAIN newTasks
          THEN LET parent == newTasks[taskToDelete.parentId]
               IN Put(newTasks, taskToDelete.parentId,
                      [parent EXCEPT !.childrenIds = FilterOut(parent.childrenIds, taskId)])
          ELSE newTasks

\* mutant of deleteTaskFocus: the focus is kept also when it is the deleted task
deleteTaskFocus_Keeps(focus, taskId) == focus

\* state.selectedTaskId === taskId ? null : state.selectedTaskId (and the same for editing)
deleteTaskFocus(focus, taskId) == IF focus = taskId THEN Null ELSE focus

\* mutant of deleteTaskColumns: the deleted task is taken out of the columns
deleteTaskColumns_Refreshed(taskId) ==
  [i \in 1..Len(columns) |-> [columns[i] EXCEPT !.taskIds = FilterOut(@, taskId)]]

\* the columns after deleteTask: the object it returns names no columns, so set() keeps them
deleteTaskColumns(taskId) == columns

deleteTask(taskId) ==
  /\ tasks' = deleteTaskTasks(taskId)
  /\ IF taskId \in DOMAIN tasks
     THEN /\ rootTaskIds' = FilterOut(rootTaskIds, taskId)
          /\ selectedTaskId' = deleteTaskFocus(selectedTaskId, taskId)
          /\ editingTaskId' = deleteTaskFocus(editingTaskId, taskId)
     ELSE UNCHANGED <<rootTaskIds, selectedTaskId, editingTaskId>>
  /\ columns' = deleteTaskColumns(taskId)
  /\ UNCHANGED taskTemplates
  /\ Record("deleteTask", taskId, Null, "")

\* mutant of toggleTask: completedAt is left as it was
toggleTask_Undated(task, at) == [task EXCEPT !.completed = ~task.completed]

\* mutant of toggleTask: completedAt is not cleared when the task becomes incomplete
toggleTask_KeepsCompletedAt(task, at) ==
  [task EXCEPT !.completed = ~task.completed,
               !.completedAt = IF ~task.completed THEN at ELSE task.completedAt]

\* the task toggleTaskCompletion stores for an existing task
toggleTask(task, at) ==
  [task EXCEPT !.completed = ~task.completed,
               !.completedAt = IF ~task.completed THEN at ELSE Null]

toggleTaskCompletion(taskId) ==
  /\ tasks' = IF taskId \in DOMAIN tasks
              THEN Put(tasks, taskId, toggleTask(tasks[taskId], Instant))
              ELSE tasks
  /\ UNCHANGED <<rootTaskIds, columns, selectedTaskId, editingTaskId, taskTemplates>>
  /\ Record("toggleTaskCompletion", taskId, Null, "")

\* ---- templates ----

deleteTemplate(templateId) ==
  /\ taskTemplates' = Delete(taskTemplates, templateId)
  /\ UNCHANGED <<tasks, rootTaskIds, columns, selectedTaskId, editingTaskId>>
  /\ Record("deleteTemplate", Null, Null, templateId)

\* ---- columns ----

\* The id setActiveColumns gives a column: `column-root-${Date.now()}` for the root
\* column (of = Null) and `column-${taskId}-${Date.now()}` for a column of children.
ColumnId(of, at) == [of |-> of, at |-> at]

Column(id, taskIds, parentTaskId, level) ==
  [id |-> id, taskIds |-> taskIds, parentTaskId |-> parentTaskId, level |-> level]

\* ids.filter(id => !!ts[id])
Existing(ts, ids) == SelectSeq(ids, LAMBDA id : id \in DOMAIN ts)

\* mutant of rootColumn: the level counter is incremented before it is read
rootColumn_LevelOne(ts, roots, at) ==
  Column(ColumnId(Null, at), Existing(ts, roots), Null, 1)

\* the column setActiveColumns pushes first
rootColumn(ts, roots, at) ==
  Column(ColumnId(Null, at), Existing(ts, roots), Null, 0)

\* task && task.childrenIds && task.childrenIds.length > 0
hasChildColumn(ts, taskId) == taskId \in DOMAIN ts /\ ts[taskId].childrenIds # <<>>

\* mutant of childColumns: the level counter is not incremented
RECURSIVE childColumns_SameLevel(_, _, _, _)
childColumns_SameLevel(ts, hierarchy, level, at) ==
  IF hierarchy = <<>> THEN <<>>
  ELSE LET taskId == Head(hierarchy)
       IN IF hasChildColumn(ts, taskId)
          THEN <<Column(ColumnId(taskId, at), Existing(ts, ts[taskId].childrenIds),
                        taskId, level)>>
                 \o childColumns_SameLevel(ts, Tail(hierarchy), level, at)
          ELSE childColumns_SameLevel(ts, Tail(hierarchy), level, at)

\* the columns the loop over selectedTaskIdsHierarchy pushes, `level` being the counter
\* when the loop reaches this part of the hierarchy
RECURSIVE childColumns(_, _, _, _)
childColumns(ts, hierarchy, level, at) ==
  IF hierarchy = <<>> THEN <<>>
  ELSE LET taskId == Head(hierarchy)
       IN IF hasChildColumn(ts, taskId)
          THEN <<Column(ColumnId(taskId, at), Existing(ts, ts[taskId].childrenIds),
                        taskId, level)>>
                 \o childColumns(ts, Tail(hierarchy), level + 1, at)
          ELSE childColumns(ts, Tail(hierarchy), level, at)

\* mutant of finalColumns: the list is not cut
finalColumns_Uncut(newColumns) == newColumns

\* newColumns.slice(0, 5)
finalColumns(newColumns) ==
  SubSeq(newColumns, 1, IF Len(newColumns) < MaxColumns THEN Len(newColumns) ELSE MaxColumns)

\* the columns setActiveColumns stores for the tasks ts and the root ids roots
setActiveColumnsColumns(ts, roots, hierarchy, at) ==
  finalColumns(<<rootColumn(ts, roots, at)>> \o childColumns(ts, hierarchy, 1, at))

setActiveColumns(selectedTaskIdsHierarchy) ==
  /\ columns' = setActiveColumnsColumns(tasks, rootTaskIds, selectedTaskIdsHierarchy, Instant)
  /\ UNCHANGED <<tasks, rootTaskIds, selectedTaskId, editingTaskId, taskTemplates>>
  /\ RecordOp([Op("setActiveColumns", Null, Null, "", Instant)
                 EXCEPT !.hierarchy = selectedTaskIdsHierarchy])
  /\ BoardIdle

removeColumn(columnId) ==
  /\ columns' = SelectSeq(columns, LAMBDA col : col.id # columnId)
  /\ UNCHANGED <<tasks, rootTaskIds, selectedTaskId, editingTaskId, taskTemplates>>
  /\ RecordOp([Op("removeColumn", Null, Null, "", Instant) EXCEPT !.columnId = columnId])
  /\ BoardIdle

\* the ids of the columns on display, and one id that no column has (no column was made
\* at instant 0)
ColumnIdInputs == {columns[i].id : i \in 1..Len(columns)} \cup {ColumnId(Null, 0)}

\* Board's buildHierarchy(currentId, path): the ids from the topmost ancestor of
\* currentId down to currentId, prepended to path; n bounds the number of links followed
\* (the recursion of the code ends in every store without a parentId cycle)
RECURSIVE buildHierarchyWithin(_, _, _, _)
buildHierarchyWithin(ts, currentId, path, n) ==
  IF currentId \notin DOMAIN ts \/ n = 0 THEN path
  ELSE IF ts[currentId].parentId # Null
       THEN buildHierarchyWithin(ts, ts[currentId].parentId, <<currentId>> \o path, n - 1)
       ELSE <<currentId>> \o path

buildHierarchy(ts, currentId, path) ==
  buildHierarchyWithin(ts, currentId, path, Cardinality(DOMAIN ts))

\* the hierarchies the Board hands to setActiveColumns after a click: the path to a task
BuiltHierarchies == {buildHierarchy(tasks, id, <<>>) : id \in ParentIds}

\* ---- applyTemplate ----

\* tempRootTaskIds.forEach(id => { if (!list.includes(id)) list.push(id) })
RECURSIVE PushMissing(_, _)
PushMissing(list, ids) ==
  IF ids = <<>> THEN list
  ELSE PushMissing(IF Includes(list, ids[1]) THEN list ELSE Append(list, ids[1]), Tail(ids))

\* What the loop over template.tasks leaves in tempTasks, tempRootTaskIds,
\* tempParentChildMap and generatedTopLevelTaskIds: its callback has an empty body
\* (processTaskDefinition is never called), so all four stay as initialised.
applyTemplateGenerated(template, parentId) ==
  [tempTasks |-> <<>>, tempRootTaskIds |-> <<>>, tempParentChildMap |-> <<>>,
   generatedTopLevelTaskIds |-> <<>>]

\* tempParentChildMap[key] || fallback
MapOr(map, key, fallback) == IF key \in DOMAIN map THEN map[key] ELSE fallback

\* the tasks mapping applyTemplate's set() returns
applyTemplateTasks(gen, parentId) ==
  LET merged == gen.tempTasks @@ tasks
  IN IF parentId # Null /\ parentId \in DOMAIN merged
     THEN LET parentTask == merged[parentId]
          IN Put(merged, parentId,
                 [parentTask EXCEPT !.childrenIds =
                    Dedup(parentTask.childrenIds \o MapOr(gen.tempParentChildMap, parentId, <<>>))])
     ELSE merged

\* the columns applyTemplate's set() returns
applyTemplateColumns(gen, parentId) ==
  LET added == MapOr(gen.tempParentChildMap, parentId, gen.tempRootTaskIds)
      newColumns ==
        [i \in 1..Len(columns) |->
           IF columns[i].parentTaskId = parentId
           THEN [columns[i] EXCEPT !.taskIds = Dedup(columns[i].taskIds \o added)]
           ELSE columns[i]]
      rootColumns == {i \in 1..Len(newColumns) :
                        newColumns[i].parentTaskId = Null /\ newColumns[i].level = 0}
  IN IF parentId = Null /\ rootColumns # {}
     THEN LET rootColumnIndex == CHOOSE i \in rootColumns : \A j \in rootColumns : i <= j
          IN [newColumns EXCEPT ![rootColumnIndex].taskIds =
                Dedup(newColumns[rootColumnIndex].taskIds \o gen.tempRootTaskIds)]
     ELSE newColumns

\* mutant of applyTemplateReturned: without `if (!template) return []` the read of
\* template.tasks throws for an absent template
applyTemplateReturned_NoGuard(templateId, parentId) ==
  IF templateId \notin DOMAIN taskTemplates
  THEN [threw |-> TRUE, returned |-> <<>>]
  ELSE [threw |-> FALSE,
        returned |-> applyTemplateGenerated(taskTemplates[templateId], parentId)
                       .generatedTopLevelTaskIds]

\* how applyTemplate ends: it returns [] for an absent template and
\* generatedTopLevelTaskIds otherwise
applyTemplateReturned(templateId, parentId) ==
  [threw |-> FALSE,
   returned |-> IF templateId \notin DOMAIN taskTemplates THEN <<>>
                ELSE applyTemplateGenerated(taskTemplates[templateId], parentId)
                       .generatedTopLevelTaskIds]

applyTemplate(templateId, parentId) ==
  /\ IF templateId \notin DOMAIN taskTemplates
     THEN UNCHANGED <<tasks, rootTaskIds, columns>>
     ELSE LET gen == applyTemplateGenerated(taskTemplates[templateId], parentId)
          IN /\ tasks' = applyTemplateTasks(gen, parentId)
             /\ rootTaskIds' = PushMissing(rootTaskIds, gen.tempRootTaskIds)
             /\ columns' = applyTemplateColumns(gen, parentId)
  /\ UNCHANGED <<selectedTaskId, editingTaskId, taskTemplates>>
  /\ LET end == applyTemplateReturned(templateId, parentId)
     IN RecordOp([Op("applyTemplate", Null, parentId, templateId, Instant)
                    EXCEPT !.threw = end.threw, !.returned = end.returned])
  /\ BoardIdle

\* ---- the specification: any sequence of at most MaxOps store operations ----
Next ==
  \/ CanStep /\ \E id \in TaskIds : deleteTask(id)
  \/ CanStep /\ \E task \in TaskInputs : addTask(task)
  \/ CanStep /\ \E id \in TaskIds, partial \in PartialInputs : updateTask(id, partial)
  \/ CanStep /\ \E id \in TaskIds : toggleTaskCompletion(id)
  \/ CanStep /\ \E t \in TemplateIdInputs, p \in ParentIds : applyTemplate(t, p)
  \/ CanStep /\ \E id \in ParentIds : setSelectedTaskId(id)
  \/ CanStep /\ \E id \in ParentIds : setEditingTaskId(id)
  \/ CanStep /\ \E h \in BuiltHierarchies : setActiveColumns(h)
  \/ CanStep /\ \E c \in ColumnIdInputs : removeColumn(c)
  \/ CanStep /\ \E t \in TemplateIdInputs : deleteTemplate(t)

Spec == Init /\ [][Next]_vars

\* ---- the projection of the tree onto columns: setActiveColumns on every hierarchy ----

\* the ids the hierarchies are made of: the sample tasks that have children (the
\* operations before the projection make them childless or absent, or their children
\* absent) and the last sample task, a root without children
HierarchyIds ==
  {id \in 1..NumSampleTasks : InitialTasks(1)[id].childrenIds # <<>>} \cup {NumSampleTasks}

\* every list of at most MaxHierarchy such ids, in any order and with repetitions
Hierarchies == UNION {[1..n -> HierarchyIds] : n \in 0..MaxHierarchy}

\* no projection has been made yet
Unprojected == columns = <<>>

\* the columns on display come from the first projection
ProjectedOnce == lastOp.op = "setActiveColumns" /\ prev.columns = <<>>

\* At most MaxOps store operations that change the tree, then setActiveColumns(h) for
\* any hierarchy h, then setActiveColumns([]) over the columns that gave.
ProjectionNext ==
  \/ Unprojected /\ CanStep /\ \E id \in TaskIds : deleteTask(id)
  \/ Unprojected /\ CanStep /\ \E id \in TaskIds : updateTask(id, [parentId |-> Null])
  \/ Unprojected /\ \E h \in Hierarchies : setActiveColumns(h)
  \/ ProjectedOnce /\ setActiveColumns(<<>>)

ProjectionSpec == Init /\ [][ProjectionNext]_vars

\* ---- the Board: the event handlers of Board, TaskItem and TaskModal ----

\* the Board has mounted (its mount effect is the first thing to run after construction)
Mounted == lastOp.op # "init"

CanHandle == Mounted /\ nOps <= MaxEvents

\* a TaskItem is rendered for taskId: a column lists it and the task is in the mapping
Visible(taskId) ==
  taskId \in DOMAIN tasks /\ \E i \in 1..Len(columns) : Includes(columns[i].taskIds, taskId)

\* TaskItem's isEditingLocal, which follows editingTaskId === taskId
isEditingLocal(taskId) == editingTaskId = taskId

\* uuidv4(): an id that was never used
CanCreate == uuids < MaxNewIds
NewId == NumSampleTasks + uuids + 1

\* the Task object the Enter, Ctrl+Enter and TaskModal handlers build
newTask(id, parentId) == Task(id, "sample", FALSE, parentId, <<>>, Instant, Null)

\* an event whose handler has run, as the history keeps it
Handled(name, id, parentId) ==
  RecordOp(Op(name, id, parentId, "", Instant)) /\ UNCHANGED <<downloads, printer>>

\* an event whose handler has run and has passed hierarchy to setActiveColumns
Projected(name, id, parentId, hierarchy) ==
  /\ RecordOp([Op(name, id, parentId, "", Instant) EXCEPT !.hierarchy = hierarchy])
  /\ UNCHANGED <<downloads, printer>>

\* useEffect(() => { setActiveColumns([]); setSelectedTaskId(null) }, ...)
BoardMount ==
  /\ columns' = setActiveColumnsColumns(tasks, rootTaskIds, <<>>, Instant)
  /\ selectedTaskId' = Null
  /\ UNCHANGED <<tasks, rootTaskIds, editingTaskId, taskTemplates,
                 selectedTaskHierarchy, uuids>>
  /\ Handled("mount", Null, Null)

\* a click on a task while no task is being edited (with another task being edited the
\* handler returns at once, and the task being edited takes no clicks)
handleTaskClick(taskId) ==
  /\ Visible(taskId) /\ editingTaskId = Null
  /\ LET finalHierarchy == buildHierarchy(tasks, taskId, <<>>)
     IN /\ selectedTaskId' = taskId
        /\ selectedTaskHierarchy' = finalHierarchy
        /\ columns' = setActiveColumnsColumns(tasks, rootTaskIds, finalHierarchy, Instant)
  /\ UNCHANGED <<tasks, rootTaskIds, editingTaskId, taskTemplates, uuids>>
  /\ Projected("handleTaskClick", taskId, Null, buildHierarchy(tasks, taskId, <<>>))

\* TaskItem's delete button, the confirmation accepted
handleDeleteClick(taskId) ==
  /\ Visible(taskId) /\ ~isEditingLocal(taskId)
  /\ tasks' = deleteTaskTasks(taskId)
  /\ rootTaskIds' = FilterOut(rootTaskIds, taskId)
  /\ selectedTaskId' = deleteTaskFocus(selectedTaskId, taskId)
  /\ editingTaskId' = deleteTaskFocus(editingTaskId, taskId)
  /\ UNCHANGED <<columns, taskTemplates, selectedTaskHierarchy, uuids>>
  /\ Handled("handleDeleteClick", taskId, Null)

\* a click on the title of a task: handleTitleClick, then, the click not being stopped,
\* the onClick of the item, whose handleTaskClick still sees the editingTaskId of the
\* last render
handleTitleClick(taskId) ==
  /\ Visible(taskId) /\ ~isEditingLocal(taskId)
  /\ editingTaskId' = taskId
  /\ IF editingTaskId = Null
     THEN LET finalHierarchy == buildHierarchy(tasks, taskId, <<>>)
          IN /\ selectedTaskId' = taskId
             /\ selectedTaskHierarchy' = finalHierarchy
             /\ columns' =
                  setActiveColumnsColumns(tasks, rootTaskIds, finalHierarchy, Instant)
     ELSE UNCHANGED <<selectedTaskId, selectedTaskHierarchy, columns>>
  /\ UNCHANGED <<tasks, rootTaskIds, taskTemplates, uuids>>
  /\ Projected("handleTitleClick", taskId, Null,
               IF editingTaskId = Null THEN buildHierarchy(tasks, taskId, <<>>) ELSE <<>>)

\* the end of the inline edit of a task, with the title changed or not
finishEditing(taskId, changed) ==
  /\ Visible(taskId) /\ isEditingLocal(taskId)
  /\ tasks' = IF changed THEN updateTaskTasks(taskId, [title |-> "edited"]) ELSE tasks
  /\ editingTaskId' = Null
  /\ UNCHANGED <<rootTaskIds, columns, selectedTaskId, taskTemplates,
                 selectedTaskHierarchy, uuids>>
  /\ Handled("finishEditing", taskId, Null)

\* the Delete key, the confirmation accepted
hotkeyDelete ==
  /\ editingTaskId = Null /\ selectedTaskId # Null /\ selectedTaskId \in DOMAIN tasks
  /\ LET taskToDelete == tasks[selectedTaskId]
         n == Len(selectedTaskHierarchy)
         newHierarchy ==
           IF n > 0 /\ selectedTaskHierarchy[n] = selectedTaskId
           THEN SubSeq(selectedTaskHierarchy, 1, n - 1)
           ELSE selectedTaskHierarchy
         nextSelectedId ==
           IF Len(newHierarchy) > 0 THEN newHierarchy[Len(newHierarchy)]
           ELSE taskToDelete.parentId
     IN /\ tasks' = deleteTaskTasks(selectedTaskId)
        /\ rootTaskIds' = FilterOut(rootTaskIds, selectedTaskId)
        /\ editingTaskId' = deleteTaskFocus(editingTaskId, selectedTaskId)
        /\ selectedTaskHierarchy' = newHierarchy
        /\ columns' = setActiveColumnsColumns(tasks', rootTaskIds', newHierarchy, Instant)
        /\ selectedTaskId' = nextSelectedId
        /\ Projected("hotkeyDelete", selectedTaskId, Null, newHierarchy)
  /\ UNCHANGED <<taskTemplates, uuids>>

\* selectedTaskHierarchy.slice(0, selectedTaskHierarchy.indexOf(parent) + 1)
UpTo(hierarchy, parent) ==
  IF Includes(hierarchy, parent)
  THEN SubSeq(hierarchy, 1, CHOOSE i \in 1..Len(hierarchy) :
                               /\ hierarchy[i] = parent
                               /\ \A j \in 1..(i - 1) : hierarchy[j] # parent)
  ELSE <<>>

\* the Enter key, a title entered: a new sibling of the selected task
hotkeyEnter ==
  /\ editingTaskId = Null /\ CanCreate
  /\ LET parentOfNewTask ==
           IF selectedTaskId # Null /\ selectedTaskId \in DOMAIN tasks
           THEN tasks[selectedTaskId].parentId ELSE Null
         task == newTask(NewId, parentOfNewTask)
         sliced == IF parentOfNewTask # Null THEN UpTo(selectedTaskHierarchy, parentOfNewTask)
                   ELSE <<>>
         newHierarchy ==
           IF parentOfNewTask # Null /\ ~Includes(sliced, parentOfNewTask)
              /\ parentOfNewTask \in DOMAIN tasks
           THEN Append(sliced, parentOfNewTask) ELSE sliced
     IN /\ tasks' = addTaskTasks(task)
        /\ rootTaskIds' = addTaskRootTaskIds(task)
        /\ selectedTaskId' = task.id
        /\ columns' = setActiveColumnsColumns(tasks', rootTaskIds', newHierarchy, Instant)
        /\ Projected("hotkeyEnter", task.id, parentOfNewTask, newHierarchy)
  /\ uuids' = uuids + 1
  /\ UNCHANGED <<editingTaskId, taskTemplates, selectedTaskHierarchy>>

\* Ctrl+Enter, a title entered: a new child of the selected task
hotkeyCtrlEnter ==
  /\ editingTaskId = Null /\ CanCreate
  /\ selectedTaskId # Null /\ selectedTaskId \in DOMAIN tasks
  /\ LET task == newTask(NewId, selectedTaskId)
         newHierarchy ==
           IF Includes(selectedTaskHierarchy, selectedTaskId) THEN selectedTaskHierarchy
           ELSE Append(selectedTaskHierarchy, selectedTaskId)
     IN /\ tasks' = addTaskTasks(task)
        /\ rootTaskIds' = addTaskRootTaskIds(task)
        /\ selectedTaskId' = task.id
        /\ columns' = setActiveColumnsColumns(tasks', rootTaskIds', newHierarchy, Instant)
        /\ editingTaskId' = task.id
        /\ Projected("hotkeyCtrlEnter", task.id, selectedTaskId, newHierarchy)
  /\ uuids' = uuids + 1
  /\ UNCHANGED <<taskTemplates, selectedTaskHierarchy>>

\* the F2 key
hotkeyF2 ==
  /\ selectedTaskId # Null /\ editingTaskId = Null
  /\ editingTaskId' = selectedTaskId
  /\ UNCHANGED <<tasks, rootTaskIds, columns, selectedTaskId, taskTemplates,
                 selectedTaskHierarchy, uuids>>
  /\ Handled("hotkeyF2", selectedTaskId, Null)

\* the parentId a TaskModal for a new task is opened with: that of a column on display
ModalParentIds == {columns[i].parentTaskId : i \in 1..Len(columns)}

\* TaskModal's submit for one new task (no template chosen, no split asked for)
handleSubmit(parentId) ==
  /\ CanCreate
  /\ LET task == newTask(NewId, parentId)
     IN /\ tasks' = addTaskTasks(task)
        /\ rootTaskIds' = addTaskRootTaskIds(task)
        /\ selectedTaskId' = task.id
        /\ Handled("handleSubmit", task.id, parentId)
  /\ uuids' = uuids + 1
  /\ UNCHANGED <<columns, editingTaskId, taskTemplates, selectedTaskHierarchy>>

\* addTask on the tasks and root ids st (the calls of one handler follow one another)
addTaskTo(st, task) ==
  LET newTasks == Put(st.tasks, task.id, task)
      parent == newTasks[task.parentId]
  IN [tasks |->
        IF task.parentId # Null /\ task.parentId \in DOMAIN newTasks
        THEN Put(newTasks, task.parentId,
                 [parent EXCEPT !.childrenIds = Dedup(Append(parent.childrenIds, task.id))])
        ELSE newTasks,
      rootTaskIds |->
        IF task.parentId = Null /\ ~Includes(st.rootTaskIds, task.id)
        THEN Append(st.rootTaskIds, task.id) ELSE st.rootTaskIds]

\* Math.ceil(a / b) for positive integers
Ceil(a, b) == (a + b - 1) \div b

\* mutant of currentTaskEstMinutes: the last task is not adjusted
currentTaskEstMinutes_Unadjusted(i, numberOfTasks, totalSplitTime, splitUnitTime) ==
  splitUnitTime

\* (i === numberOfTasks - 1) ? (totalSplitTime - (splitUnitTime * i)) : splitUnitTime
currentTaskEstMinutes(i, numberOfTasks, totalSplitTime, splitUnitTime) ==
  IF i = numberOfTasks - 1 THEN totalSplitTime - splitUnitTime * i ELSE splitUnitTime

\* Math.max(1, Math.round(minutes)) for an integer number of minutes
atLeastOneMinute(minutes) == IF minutes < 1 THEN 1 ELSE minutes

\* the i-th task of handleTimeSplit (i from 0)
splitTask(id, parentId, i, numberOfTasks, totalSplitTime, splitUnitTime) ==
  Merge(newTask(id, parentId),
        [estimatedMinutes |->
           atLeastOneMinute(currentTaskEstMinutes(i, numberOfTasks, totalSplitTime,
                                                  splitUnitTime))])

\* the loop of handleTimeSplit from i onwards: addTask for each new task, the i-th with
\* the id firstId + i
RECURSIVE splitTasks(_, _, _, _, _, _, _)
splitTasks(st, parentId, firstId, i, numberOfTasks, totalSplitTime, splitUnitTime) ==
  IF i >= numberOfTasks THEN st
  ELSE splitTasks(addTaskTo(st, splitTask(firstId + i, parentId, i, numberOfTasks,
                                          totalSplitTime, splitUnitTime)),
                  parentId, firstId, i + 1, numberOfTasks, totalSplitTime, splitUnitTime)

\* TaskModal's submit with a total and a unit time
handleTimeSplit(parentId, totalSplitTime, splitUnitTime) ==
  /\ totalSplitTime > 0 /\ splitUnitTime > 0
  /\ LET numberOfTasks == Ceil(totalSplitTime, splitUnitTime)
         st == splitTasks([tasks |-> tasks, rootTaskIds |-> rootTaskIds], parentId, NewId,
                          0, numberOfTasks, totalSplitTime, splitUnitTime)
     IN /\ tasks' = st.tasks
        /\ rootTaskIds' = st.rootTaskIds
        /\ uuids' = uuids + numberOfTasks
  /\ selectedTaskId' = NewId
  /\ UNCHANGED <<columns, editingTaskId, taskTemplates, selectedTaskHierarchy>>
  /\ RecordOp([Op("handleTimeSplit", NewId, parentId, "", Instant)
                 EXCEPT !.partial = [totalSplitTime |-> totalSplitTime,
                                     splitUnitTime |-> splitUnitTime]])
  /\ UNCHANGED <<downloads, printer>>

\* TaskModal's submit with a template chosen
handleApplyTemplate(selectedTemplate, parentId) ==
  /\ selectedTemplate \in DOMAIN taskTemplates
  /\ LET gen == applyTemplateGenerated(taskTemplates[selectedTemplate], parentId)
         newIds == applyTemplateReturned(selectedTemplate, parentId).returned
     IN /\ tasks' = applyTemplateTasks(gen, parentId)
        /\ rootTaskIds' = PushMissing(rootTaskIds, gen.tempRootTaskIds)
        /\ columns' = applyTemplateColumns(gen, parentId)
        /\ selectedTaskId' = IF Len(newIds) > 0 THEN newIds[1] ELSE selectedTaskId
  /\ UNCHANGED <<editingTaskId, taskTemplates, selectedTaskHierarchy, uuids>>
  /\ RecordOp(Op("handleApplyTemplate", Null, parentId, selectedTemplate, Instant))
  /\ UNCHANGED <<downloads, printer>>

BoardNext ==
  \/ ~Mounted /\ BoardMount
  \/ CanHandle /\ \E id \in TaskIds : handleTaskClick(id)
  \/ CanHandle /\ \E id \in TaskIds : handleDeleteClick(id)
  \/ CanHandle /\ \E id \in TaskIds : handleTitleClick(id)
  \/ CanHandle /\ \E id \in TaskIds, changed \in BOOLEAN : finishEditing(id, changed)
  \/ CanHandle /\ hotkeyDelete
  \/ CanHandle /\ hotkeyEnter
  \/ CanHandle /\ hotkeyCtrlEnter
  \/ CanHandle /\ hotkeyF2
  \/ CanHandle /\ \E p \in ModalParentIds : handleSubmit(p)
  \/ CanHandle /\ \E p \in ModalParentIds, total \in 1..MaxNewIds, unit \in 1..MaxNewIds :
                    uuids + Ceil(total, unit) <= MaxNewIds /\ handleTimeSplit(p, total, unit)
  \/ CanHandle /\ \E t \in TemplateIds, p \in ModalParentIds : handleApplyTemplate(t, p)

BoardSpec == Init /\ [][BoardNext]_vars

\* ---- the time split of TaskModal on every total and unit time up to MaxSplitTime ----

\* no split has been made yet
Unsplit == uuids = 0

\* The Board mounts, tasks are clicked (which puts their children on display, so that a
\* TaskModal can be opened under them), and one split is made.
SplitNext ==
  \/ ~Mounted /\ BoardMount
  \/ CanHandle /\ Unsplit /\ \E id \in TaskIds : handleTaskClick(id)
  \/ CanHandle /\ Unsplit /\
       \E p \in ModalParentIds, total \in 1..MaxSplitTime, unit \in 1..MaxSplitTime :
         handleTimeSplit(p, total, unit)

SplitSpec == Init /\ [][SplitNext]_vars

\* ---- Date: the calendar of the instants ----

IsLeapYear(year) == (year % 4 = 0 /\ year % 100 # 0) \/ year % 400 = 0

\* the number of days of a month, months counted from 0 as getMonth() does
DaysInMonth(year, month) ==
  IF month = 1 THEN (IF IsLeapYear(year) THEN 29 ELSE 28)
  ELSE IF month \in {3, 5, 8, 10} THEN 30 ELSE 31

DaysInYear(year) == IF IsLeapYear(year) THEN 366 ELSE 365

\* the calendar date that is `days` days after the first day of the given month
RECURSIVE DateAfter(_, _, _)
DateAfter(year, month, days) ==
  IF days < 0
  THEN LET py == IF month = 0 THEN year - 1 ELSE year
           pm == IF month = 0 THEN 11 ELSE month - 1
       IN DateAfter(py, pm, days + DaysInMonth(py, pm))
  ELSE IF month = 0 /\ days >= DaysInYear(year)
       THEN DateAfter(year + 1, 0, days - DaysInYear(year))
       ELSE IF days < DaysInMonth(year, month)
            THEN [year |-> year, month |-> month, date |-> days + 1]
            ELSE DateAfter(IF month = 11 THEN year + 1 ELSE year,
                           IF month = 11 THEN 0 ELSE month + 1,
                           days - DaysInMonth(year, month))

\* floor(a / b) for b > 0, also for a negative a
FloorDiv(a, b) == IF a >= 0 THEN a \div b ELSE -((b - 1 - a) \div b)

\* the day an instant lies in, counted from 1970-01-01 (negative before it)
DayOf(instant) == FloorDiv(instant, TicksPerDay)

\* getFullYear(), getMonth(), getDate() of an instant
Civil(instant) == DateAfter(1970, 0, DayOf(instant))

\* the time of day of an instant: what getHours() .. getMilliseconds() read
TimeOfDay(instant) == instant - DayOf(instant) * TicksPerDay

\* getDay(): 0 is Sunday; 1970-01-01 was a Thursday
getDay(instant) == (DayOf(instant) + 4) % 7

\* the number of days from 1970-01-01 to the first day of a year
RECURSIVE DaysToYear(_)
DaysToYear(year) ==
  IF year = 1970 THEN 0
  ELSE IF year > 1970 THEN DaysToYear(year - 1) + DaysInYear(year - 1)
       ELSE DaysToYear(year + 1) - DaysInYear(year)

\* the number of days from the first day of a year to the first day of a month of it
RECURSIVE DaysBeforeMonth(_, _)
DaysBeforeMonth(year, month) ==
  IF month = 0 THEN 0
  ELSE DaysBeforeMonth(year, month - 1) + DaysInMonth(year, month - 1)

\* the number of days from 1970-01-01 to the first day of a month
DaysToMonth(year, month) == DaysToYear(year) + DaysBeforeMonth(year, month)

\* new Date(year, month, date) at the given time of day; a date below 1 or beyond the
\* month's end counts on into the neighbouring months, as setDate() has it
MakeDate(year, month, date, time) ==
  (DaysToMonth(year, month) + date - 1) * TicksPerDay + time

\* ---- export and import (DataManagementPanel, importState) ----

\* mutant of toISOString: the time of day is left out of the string
toISOString_DateOnly(instant) ==
  LET c == Civil(instant) IN <<c.year, c.month + 1, c.date, 0>>

\* date.toISOString(): "YYYY-MM-DDThh:mm:ss.sssZ" as its fields <<YYYY, MM, DD, time>>
toISOString(instant) ==
  LET c == Civil(instant) IN <<c.year, c.month + 1, c.date, TimeOfDay(instant)>>

\* new Date(isoString)
parseDate(iso) == MakeDate(iso[1], iso[2] - 1, iso[3], iso[4])

\* a value of a JSON document: its JavaScript type ("undefined" for a key that is missing)
\* and, for an array or an object, what it holds (empty otherwise)
JsValue(type, value) == [type |-> type, value |-> value]

\* typeof v
typeof(v) == IF v.type \in {"null", "array", "object"} THEN "object" ELSE v.type

\* !v
falsy(v) == v.type \in {"undefined", "null"}

\* an ExportedTask: the task with its dates as ISO strings, a null completedAt as <<>>
ExportedTask(task) ==
  [task EXCEPT !.createdAt = toISOString(task.createdAt),
               !.completedAt = IF task.completedAt # Null
                               THEN toISOString(task.completedAt) ELSE <<>>]

\* the document handleExport writes for a store with the given parts
exportedData(ts, roots, templates) ==
  [version |-> CURRENT_DATA_VERSION,
   tasks |-> JsValue("object", [id \in DOMAIN ts |->
                                  JsValue("object", ExportedTask(ts[id]))]),
   rootTaskIds |-> JsValue("array", roots),
   taskTemplates |-> JsValue("object", templates)]

\* the document handleExport writes for the store it sees
dataToExport == exportedData(tasks, rootTaskIds, taskTemplates)

\* the export button
handleExport ==
  /\ Len(downloads) < MaxDownloads
  /\ downloads' = Append(downloads, dataToExport)
  /\ UNCHANGED <<tasks, rootTaskIds, columns, selectedTaskId, editingTaskId, taskTemplates,
                 selectedTaskHierarchy, uuids, printer>>
  /\ RecordOp([Op("handleExport", Null, Null, "", Instant) EXCEPT !.data = <<dataToExport>>])

\* the first test of importState: true when the document is turned down
invalidFormat(data) ==
  \/ typeof(data.tasks) # "object"
  \/ data.rootTaskIds.type # "array"
  \/ typeof(data.taskTemplates) # "object"

\* the rehydration throws: Object.entries(null), or task.createdAt of a null entry
rehydrationThrows(data) ==
  \/ data.tasks.type = "null"
  \/ \E id \in DOMAIN data.tasks.value : data.tasks.value[id].type = "null"

\* { ...task, createdAt: new Date(task.createdAt),
\*   completedAt: task.completedAt ? new Date(task.completedAt) : null }
rehydrateTask(task) ==
  [task EXCEPT !.createdAt = parseDate(task.createdAt),
               !.completedAt = IF task.completedAt # <<>> THEN parseDate(task.completedAt)
                               ELSE Null]

\* mutant of rehydratedTasks: the tasks of the document are merged into those of the store
rehydratedTasks_KeepsPrior(data) ==
  [id \in DOMAIN data.tasks.value |-> rehydrateTask(data.tasks.value[id].value)] @@ tasks

\* Object.fromEntries(Object.entries(data.tasks).map(([id, task]) => [id, {...}]))
rehydratedTasks(data) ==
  [id \in DOMAIN data.tasks.value |-> rehydrateTask(data.tasks.value[id].value)]

\* what the store holds after set({ taskTemplates: data.taskTemplates }): the mapping, or
\* null when the document has null there
storedTemplates(data) ==
  IF data.taskTemplates.type = "null" THEN Null ELSE data.taskTemplates.value

\* importState returns true
importStateSucceeds(data) == ~invalidFormat(data) /\ ~rehydrationThrows(data)

\* mutant of importStateSet: the store is written before the tasks are rehydrated, so a
\* document whose rehydration throws has replaced the root ids and the templates
importStateSet_BeforeRehydration(data) ==
  IF invalidFormat(data) THEN UNCHANGED <<tasks, rootTaskIds, taskTemplates>>
  ELSE /\ tasks' = IF rehydrationThrows(data) THEN tasks ELSE rehydratedTasks(data)
       /\ rootTaskIds' = data.rootTaskIds.value
       /\ taskTemplates' = storedTemplates(data)

\* what importState does to tasks, rootTaskIds and taskTemplates
importStateSet(data) ==
  IF importStateSucceeds(data)
  THEN /\ tasks' = rehydratedTasks(data)
       /\ rootTaskIds' = data.rootTaskIds.value
       /\ taskTemplates' = storedTemplates(data)
  ELSE UNCHANGED <<tasks, rootTaskIds, taskTemplates>>

importState(data) ==
  /\ importStateSet(data)
  /\ IF importStateSucceeds(data)
     THEN selectedTaskId' = Null /\ editingTaskId' = Null /\ columns' = <<>>
     ELSE UNCHANGED <<selectedTaskId, editingTaskId, columns>>
  /\ RecordOp([Op("importState", Null, Null, "", Instant)
                 EXCEPT !.data = <<data>>, !.called = TRUE,
                        !.success = importStateSucceeds(data)])
  /\ BoardIdle

\* the test handleImportChange makes before it calls importState: true when it throws
missingKeys(parsedData) ==
  \/ falsy(parsedData.tasks) \/ typeof(parsedData.tasks) # "object"
  \/ falsy(parsedData.rootTaskIds) \/ parsedData.rootTaskIds.type # "array"
  \/ falsy(parsedData.taskTemplates) \/ typeof(parsedData.taskTemplates) # "object"

\* the version of the file is not that of the application: the user is asked
versionDiffers(parsedData) == parsedData.version # CURRENT_DATA_VERSION

\* mutant of callsImportState: the user's answer is not looked at
callsImportState_Unasked(parsedData, proceed) == ~missingKeys(parsedData)

\* handleImportChange gets as far as calling importState
callsImportState(parsedData, proceed) ==
  ~(versionDiffers(parsedData) /\ ~proceed) /\ ~missingKeys(parsedData)

\* a file has been chosen and read (reader.onload), its JSON being parsedData; proceed is
\* the user's answer when the version question is asked
handleImportChange(parsedData, proceed) ==
  LET called == callsImportState(parsedData, proceed)
      success == called /\ importStateSucceeds(parsedData)
  IN /\ IF called THEN importStateSet(parsedData)
        ELSE UNCHANGED <<tasks, rootTaskIds, taskTemplates>>
     /\ IF success
        THEN /\ selectedTaskId' = Null
             /\ editingTaskId' = Null
             /\ columns' = setActiveColumnsColumns(tasks', rootTaskIds', <<>>, Instant)
        ELSE UNCHANGED <<selectedTaskId, editingTaskId, columns>>
     /\ RecordOp([Op("handleImportChange", Null, Null, "", Instant)
                    EXCEPT !.data = <<parsedData>>,
                           !.proceed = versionDiffers(parsedData) /\ proceed,
                           !.called = called, !.success = success])
     /\ BoardIdle

\* ---- the documents a user may choose ----

\* an exported task written by hand: completed on 1970-03-01, created the day before
DocumentTask(id) ==
  [Task(id, "imported", TRUE, Null, <<>>, Null, Null)
     EXCEPT !.createdAt = <<1970, 2, 28, 1>>, !.completedAt = <<1970, 3, 1, 0>>]

NoEntries == [id \in {} |-> Null]

TasksValues ==
  {JsValue(type, NoEntries) : type \in {"undefined", "null", "string", "object"}}
    \cup {JsValue("object", [id \in {NumSampleTasks + 1} |->
                               JsValue("object", DocumentTask(id))]),
          JsValue("object", [id \in {1, NumSampleTasks + 1} |->
                               JsValue(IF id = 1 THEN "object" ELSE "null",
                                       DocumentTask(id))])}

RootTaskIdsValues ==
  {JsValue(type, <<>>) : type \in {"undefined", "null", "string", "object", "array"}}
    \cup {JsValue("array", <<NumSampleTasks + 1>>)}

TaskTemplatesValues ==
  {JsValue(type, [t \in {} |-> Null]) : type \in {"undefined", "null", "string", "object"}}

Versions == {CURRENT_DATA_VERSION, CURRENT_DATA_VERSION + 1, Null}

Document(version, ts, roots, templates) ==
  [version |-> version, tasks |-> ts, rootTaskIds |-> roots, taskTemplates |-> templates]

\* the documents written by hand: those of the current version with every combination of
\* the values above, and those of every version (Null: the key is missing) whose
\* rootTaskIds is a sequence and whose taskTemplates is a mapping
Documents ==
  {Document(CURRENT_DATA_VERSION, ts, roots, templates) :
     ts \in TasksValues, roots \in RootTaskIdsValues, templates \in TaskTemplatesValues}
    \cup {Document(version, ts, roots, JsValue("object", [t \in {} |-> Null])) :
            version \in Versions, ts \in TasksValues,
            roots \in {r \in RootTaskIdsValues : r.type = "array"}}

\* the files there are to choose from: those written by hand and those exported
Files == Documents \cup {downloads[i] : i \in 1..Len(downloads)}

\* ---- the specification of export and import ----

\* nothing has been imported yet
NotImported == lastOp.op \notin {"importState", "handleImportChange"}

\* the instants the application is loaded at: the first tick of the clock, and the last
\* tick of a 29th of February and of a year
StartInstants ==
  {1, MakeDate(1972, 1, 29, TicksPerDay - 1), MakeDate(1970, 11, 31, TicksPerDay - 1)}

ImportInit == \E t0 \in StartInstants : InitAt(t0)

\* At most MaxOps operations that change the store or export it, then one import, by the
\* panel or by a call of importState.
ImportNext ==
  \/ NotImported /\ CanStep /\ \E id \in DOMAIN tasks : toggleTaskCompletion(id)
  \/ NotImported /\ CanStep /\ \E i \in 1..Len(rootTaskIds) : setSelectedTaskId(rootTaskIds[i])
  \/ NotImported /\ CanStep /\ setActiveColumns(<<>>)
  \/ NotImported /\ CanStep /\ handleExport
  \/ NotImported /\ \E data \in Files : importState(data)
  \/ NotImported /\ \E parsedData \in Files, proceed \in BOOLEAN :
                      handleImportChange(parsedData, proceed)

ImportSpec == ImportInit /\ [][ImportNext]_vars

\* ---- statistics (the selectors of the store, also computed in StatsPanel) ----

\* mutant of todayStart: the start of the day before
todayStart_DayBefore(at) ==
  LET c == Civil(at) IN MakeDate(c.year, c.month, c.date - 1, 0)

\* todayStart: new Date() with setHours(0, 0, 0, 0)
todayStart(at) ==
  LET c == Civil(at) IN MakeDate(c.year, c.month, c.date, 0)

\* mutant of daysBackToMonday: Sunday is not treated apart
daysBackToMonday_NoSunday(today) == today - 1

\* today === 0 ? 6 : today - 1
daysBackToMonday(today) == IF today = 0 THEN 6 ELSE today - 1

\* weekStart: setDate(now.getDate() - (...)), then setHours(0, 0, 0, 0)
weekStart(at) ==
  LET c == Civil(at)
  IN MakeDate(c.year, c.month, c.date - daysBackToMonday(getDay(at)), 0)

\* monthStart: new Date(now.getFullYear(), now.getMonth(), 1)
monthStart(at) ==
  LET c == Civil(at) IN MakeDate(c.year, c.month, 1, 0)

\* mutant of completedSince: a task completed at the very start is left out
completedSince_After(ts, start) ==
  Cardinality({id \in DOMAIN ts :
                 ts[id].completed /\ ts[id].completedAt # Null /\ ts[id].completedAt > start})

\* Object.values(tasks).filter(task => task.completed && task.completedAt
\*                                       && new Date(task.completedAt) >= start).length
completedSince(ts, start) ==
  Cardinality({id \in DOMAIN ts :
                 ts[id].completed /\ ts[id].completedAt # Null /\ ts[id].completedAt >= start})

\* a selector has been called and has returned count
Selected(name, count) ==
  /\ UNCHANGED <<tasks, rootTaskIds, columns, selectedTaskId, editingTaskId, taskTemplates>>
  /\ RecordOp([Op(name, Null, Null, "", Instant) EXCEPT !.returned = <<count>>])
  /\ BoardIdle

getCompletedTasksTotalCount ==
  Selected("getCompletedTasksTotalCount",
           Cardinality({id \in DOMAIN tasks : tasks[id].completed}))

getTasksCompletedTodayCount ==
  Selected("getTasksCompletedTodayCount", completedSince(tasks, todayStart(Instant)))

getTasksCompletedThisWeekCount ==
  Selected("getTasksCompletedThisWeekCount", completedSince(tasks, weekStart(Instant)))

getTasksCompletedThisMonthCount ==
  Selected("getTasksCompletedThisMonthCount", completedSince(tasks, monthStart(Instant)))

\* time passes without an operation
timePasses(delay) ==
  /\ now' = now + delay
  /\ nOps' = nOps + 1
  /\ UNCHANGED <<tasks, rootTaskIds, columns, selectedTaskId, editingTaskId, taskTemplates,
                 selectedTaskHierarchy, uuids, downloads, printer, lastOp, prev, toggleRun>>

\* a day, a week, and the longest month
Delays == {days * TicksPerDay : days \in {1, 7, 31}}

\* the instants the application is loaded at: the last tick of each day of a week, the
\* first of them the last day of a month
StatsStartInstants == {MakeDate(1970, 0, 31 + k, TicksPerDay - 1) : k \in 0..6}

StatsInit == \E t0 \in StatsStartInstants : InitAt(t0)

\* At most MaxOps operations that complete tasks or let time pass, with the selectors
\* called in between and after.
StatsNext ==
  \/ CanStep /\ \E id \in DOMAIN tasks : toggleTaskCompletion(id)
  \/ CanStep /\ \E id \in DOMAIN tasks : updateTask(id, [completed |-> TRUE])
  \/ CanStep /\ \E delay \in Delays : timePasses(delay)
  \/ nOps <= MaxOps /\ getCompletedTasksTotalCount
  \/ nOps <= MaxOps /\ getTasksCompletedTodayCount
  \/ nOps <= MaxOps /\ getTasksCompletedThisWeekCount
  \/ nOps <= MaxOps /\ getTasksCompletedThisMonthCount

StatsSpec == StatsInit /\ [][StatsNext]_vars

\* ---- the printer (PrinterService, the handlers of PrintSettings) ----

\* the store and the Board while PrintSettings handles an event
PrintIdle ==
  UNCHANGED <<tasks, rootTaskIds, columns, selectedTaskId, editingTaskId, taskTemplates,
              selectedTaskHierarchy, uuids, downloads>>

\* an event of PrintSettings in the history: the handler, and what printRaw returned when
\* a call of it has returned in this step
Printed(name, returned) ==
  RecordOp([Op(name, Null, Null, "", Instant) EXCEPT !.returned = returned])

\* printerService.isConnected()
serviceIsConnected(p) == p.device # "null" /\ p.device = "opened" /\ p.endpointOut

\* a printRaw call: the handler that made it, the call it awaits (transferOut or, after
\* a NetworkError, clearHalt; "" once it has returned), and how many times it has called
\* device.transferOut and device.clearHalt
Call(handler, awaits, transfers, clearHalts) ==
  [handler |-> handler, awaits |-> awaits, transfers |-> transfers,
   clearHalts |-> clearHalts]

\* [...calls] without the i-th
Without(calls, i) == SubSeq(calls, 1, i - 1) \o SubSeq(calls, i + 1, Len(calls))

\* the transfers the device has been given and has not settled
inFlight(calls) == {i \in 1..Len(calls) : calls[i].awaits = "transferOut"}

\* the first test of printRaw: true when it returns false at once
notReady(p) == p.device = "null" \/ ~p.endpointOut \/ p.device # "opened"

\* printerService.printRaw(data) up to its first await: false at once without a device
\* that is open with an endpoint, and otherwise device.transferOut is called
printRaw(p, handler) ==
  IF notReady(p) THEN [p EXCEPT !.last = Call(handler, "", 0, 0)]
  ELSE [p EXCEPT !.calls = Append(p.calls, Call(handler, "transferOut", 1, 0))]

printRawReturned(p) == IF notReady(p) THEN <<FALSE>> ELSE <<>>

\* how connect() may end: the chooser, open, selectConfiguration or claimInterface
\* throws; the device has no interface that will do; the interface has no alternate
\* with an OUT endpoint; or the printer is connected
ConnectOutcomes == {"throws", "noInterface", "noAlternate", "connected"}

\* printerService.connect() with its outcome, as one step
connect(p, outcome) ==
  CASE outcome = "throws" ->
         [p EXCEPT !.device = "null", !.interfaceNumber = FALSE, !.endpointOut = FALSE]
    [] outcome = "noInterface" -> [p EXCEPT !.device = "null"]
    [] outcome = "noAlternate" -> [p EXCEPT !.device = "null", !.interfaceNumber = FALSE]
    [] outcome = "connected" ->
         [p EXCEPT !.device = "opened", !.interfaceNumber = TRUE, !.endpointOut = TRUE]

\* the fields disconnect() sets to null in its finally block
disconnected_KeepsEndpoint(p) == [p EXCEPT !.device = "null"]

disconnected(p) == [p EXCEPT !.device = "null", !.endpointOut = FALSE]

\* printerService.disconnect() as one step; released: releaseInterface did not throw
disconnect(p, released) ==
  IF p.device = "null" THEN p
  ELSE [disconnected(p) EXCEPT
          !.interfaceNumber = IF p.interfaceNumber /\ p.device = "opened" /\ released
                              THEN FALSE ELSE p.interfaceNumber]

\* the connect button, shown while isConnected is false
handleConnect(outcome) ==
  /\ ~printer.isConnected
  /\ printer' = [connect(printer, outcome) EXCEPT !.isConnected = (outcome = "connected")]
  /\ PrintIdle
  /\ Printed("handleConnect", <<outcome = "connected">>)

\* the disconnect button, shown while isConnected is true
handleDisconnect(released) ==
  /\ printer.isConnected
  /\ printer' = [disconnect(printer, released) EXCEPT !.isConnected = FALSE]
  /\ PrintIdle
  /\ Printed("handleDisconnect", <<>>)

\* the device is unplugged: device.opened turns false and PrintSettings is not told
deviceLost ==
  /\ printer.device = "opened"
  /\ printer' = [printer EXCEPT !.device = "closed"]
  /\ PrintIdle
  /\ Printed("deviceLost", <<>>)

\* the test print button, enabled while isConnected is true
handleTestPrint ==
  /\ printer.isConnected
  /\ printer' = printRaw(printer, "handleTestPrint")
  /\ PrintIdle
  /\ Printed("handleTestPrint", printRawReturned(printer))

\* columnTasksToShow of handlePrintColumn: the tasks of the column that exist
columnTasksToShow(columnToPrint) ==
  SelectSeq(columnToPrint.taskIds, LAMBDA tid : tid \in DOMAIN tasks)

\* handlePrintColumn gets as far as printRaw: the column is found and has tasks
printsColumn(targetColumnId) ==
  \E i \in 1..Len(columns) :
    /\ columns[i].id = targetColumnId
    /\ \A j \in 1..(i - 1) : columns[j].id # targetColumnId
    /\ columnTasksToShow(columns[i]) # <<>>

\* the print button of the focused column, enabled while isConnected is true
handlePrintColumn(targetColumnId) ==
  /\ printer.isConnected
  /\ printer' = IF printsColumn(targetColumnId)
                THEN printRaw(printer, "handlePrintColumn")
                ELSE printer
  /\ PrintIdle
  /\ Printed("handlePrintColumn",
             IF printsColumn(targetColumnId) THEN printRawReturned(printer) ELSE <<>>)

\* how a transfer may settle: it is sent, it is rejected with a NetworkError, or it is
\* rejected with another error; a device that is not open sends nothing
Outcomes == {"ok", "NetworkError", "error"}

\* the catch block of printRaw goes on to clearHalt: the error is a NetworkError and
\* the service has an endpoint
clearsHalt(p, outcome) == outcome = "NetworkError" /\ p.endpointOut

\* what the catch block does with the call after a rejected transfer
caught_Resends(call, clears) == [call EXCEPT !.transfers = @ + 1, !.awaits = "transferOut"]

caught(call, clears) ==
  IF clears THEN [call EXCEPT !.awaits = "clearHalt", !.clearHalts = @ + 1]
  ELSE [call EXCEPT !.awaits = ""]

\* the call after its transferOut has settled
settled(call, outcome, clears) ==
  IF outcome = "ok" THEN [call EXCEPT !.awaits = ""] ELSE caught(call, clears)

\* the calls and the last return once the i-th call has become call
proceeds(p, i, call) ==
  IF call.awaits = ""
  THEN [p EXCEPT !.calls = Without(p.calls, i), !.last = call]
  ELSE [p EXCEPT !.calls[i] = call]

\* the transferOut of the i-th call settles: printRaw returns true, returns false, or
\* goes on to clearHalt
transferOutSettles(i, outcome) ==
  /\ i \in inFlight(printer.calls)
  /\ outcome = "ok" => printer.device = "opened"
  /\ LET call == settled(printer.calls[i], outcome, clearsHalt(printer, outcome))
     IN /\ printer' = proceeds(printer, i, call)
        /\ Printed(IF outcome = "ok" THEN "transferOut" ELSE "transferOut rejected",
                   IF call.awaits = "" THEN <<outcome = "ok">> ELSE <<>>)
  /\ PrintIdle

\* the clearHalt of the i-th call settles, cleared or not: printRaw returns false
clearHaltSettles(i, cleared) ==
  /\ i \in 1..Len(printer.calls)
  /\ printer.calls[i].awaits = "clearHalt"
  /\ printer' = proceeds(printer, i, [printer.calls[i] EXCEPT !.awaits = ""])
  /\ PrintIdle
  /\ Printed(IF cleared THEN "clearHalt" ELSE "clearHalt failed", <<FALSE>>)

\* ---- the specification of the printer: the Board mounts, then at most MaxEvents ----
\* ---- clicks in PrintSettings, with the transfers settling at any time          ----

PrinterNext ==
  \/ ~Mounted /\ BoardMount
  \/ CanHandle /\ \E outcome \in ConnectOutcomes : handleConnect(outcome)
  \/ CanHandle /\ \E released \in BOOLEAN : handleDisconnect(released)
  \/ CanHandle /\ deviceLost
  \/ CanHandle /\ handleTestPrint
  \/ CanHandle /\ \E targetColumnId \in ColumnIdInputs : handlePrintColumn(targetColumnId)
  \/ \E i \in 1..Len(printer.calls), outcome \in Outcomes : transferOutSettles(i, outcome)
  \/ \E i \in 1..Len(printer.calls), cleared \in BOOLEAN : clearHaltSettles(i, cleared)

PrinterSpec == Init /\ [][PrinterNext]_vars

\* ======================= properties =======================

\* the elements of seq that belong to S, in the order of seq
Restrict(seq, S) == SelectSeq(seq, LAMBDA e : e \in S)

Elements(seq) == {seq[i] : i \in 1..Len(seq)}

\* the last operation was `name` (the store before it is prev, the store after it the state)
Did(name) == lastOp.op = name

\* the ids met by following parentId upwards from task id (the task itself excluded
\* unless the links lead back to it), by at most n links
RECURSIVE AncestorsWithin(_, _)
AncestorsWithin(id, n) ==
  IF n = 0 \/ id \notin DOMAIN tasks \/ tasks[id].parentId = Null
  THEN {}
  ELSE {tasks[id].parentId} \cup AncestorsWithin(tasks[id].parentId, n - 1)

Ancestors(id) == AncestorsWithin(id, Cardinality(DOMAIN tasks))

\* the ids reachable from the ids of S by following childrenIds, by at most n links
RECURSIVE ReachableWithin(_, _)
ReachableWithin(S, n) ==
  IF n = 0 THEN S
  ELSE ReachableWithin(
         S \cup UNION {Elements(tasks[p].childrenIds) : p \in S \cap DOMAIN tasks}, n - 1)

RootsReaching(id) ==
  {r \in Elements(rootTaskIds) : id \in ReachableWithin({r}, Cardinality(DOMAIN tasks))}

\* C1: in every reachable store, for every task P of the mapping, P.childrenIds lists
\* each task of the mapping whose parentId is P.id exactly once, and lists nothing else.
C1_ChildrenIdsMirrorParentId ==
  \A p \in DOMAIN tasks : \A id \in TaskIds :
    Count(tasks[p].childrenIds, id) =
      (IF id \in DOMAIN tasks /\ tasks[id].parentId = p THEN 1 ELSE 0)

\* C2: in every reachable store, rootTaskIds lists each task of the mapping whose parentId
\* is null exactly once, and lists nothing else.
C2_RootTaskIdsAreTheRoots ==
  \A id \in TaskIds :
    Count(rootTaskIds, id) =
      (IF id \in DOMAIN tasks /\ tasks[id].parentId = Null THEN 1 ELSE 0)

\* C3: in every reachable store, following parentId from a task of the mapping never
\* leads back to that task.
C3_NoParentCycle == \A id \in DOMAIN tasks : id \notin Ancestors(id)

\* C4: in every reachable store, every task of the mapping with a non-null parentId has
\* its parent in the mapping, and every task is reachable from exactly one id of
\* rootTaskIds by following childrenIds.
C4_ParentPresentAndOneRoot ==
  \A id \in DOMAIN tasks :
    /\ tasks[id].parentId # Null => tasks[id].parentId \in DOMAIN tasks
    /\ Cardinality(RootsReaching(id)) = 1

\* C5: after addTask(T) with T.parentId = null, T.id occurs exactly once in rootTaskIds
\* (also when T.id had been added before), and the ids that were in rootTaskIds before the
\* call are still there in the same relative order.
C5_AddRootOnce ==
  (Did("addTask") /\ lastOp.parentId = Null) =>
    /\ Count(rootTaskIds, lastOp.id) = 1
    /\ Restrict(rootTaskIds, Elements(prev.rootTaskIds)) = prev.rootTaskIds

\* C5 witness: addTask of a root task under an id generated by a caller that an earlier
\* addTask had already put into rootTaskIds.
C5_Witness ==
  /\ Did("addTask") /\ lastOp.parentId = Null
  /\ lastOp.id > NumSampleTasks
  /\ Includes(prev.rootTaskIds, lastOp.id)
  /\ Count(rootTaskIds, lastOp.id) = 1

\* C6: after addTask(T) with T.parentId = P and P in the mapping, T.id occurs exactly once
\* in tasks[P].childrenIds, after the children P had before the call, which keep their
\* order (the list is unchanged when T.id was already a child), and rootTaskIds is not
\* changed.
C6_AddChildOnce ==
  (Did("addTask") /\ lastOp.parentId # Null /\ lastOp.parentId \in DOMAIN prev.tasks) =>
    LET P == lastOp.parentId
        before == prev.tasks[P].childrenIds
    IN /\ P \in DOMAIN tasks
       /\ Count(tasks[P].childrenIds, lastOp.id) = 1
       /\ tasks[P].childrenIds =
            (IF Includes(before, lastOp.id) THEN before ELSE Append(before, lastOp.id))
       /\ rootTaskIds = prev.rootTaskIds

\* C7: deleteTask(id) of a task whose parent P is another task of the mapping removes the
\* task from the mapping and id from tasks[P].childrenIds, P's other children keeping their
\* order; deleting a task removes its id from rootTaskIds, the other root ids keeping
\* their order.
C7_DeleteDetaches ==
  (Did("deleteTask") /\ lastOp.id \in DOMAIN prev.tasks) =>
    LET id == lastOp.id
        P == prev.tasks[id].parentId
    IN /\ id \notin DOMAIN tasks
       /\ (P # Null /\ P # id /\ P \in DOMAIN prev.tasks) =>
            /\ P \in DOMAIN tasks
            /\ ~Includes(tasks[P].childrenIds, id)
            /\ tasks[P].childrenIds = Restrict(prev.tasks[P].childrenIds, TaskIds \ {id})
       /\ ~Includes(rootTaskIds, id)
       /\ rootTaskIds = Restrict(prev.rootTaskIds, TaskIds \ {id})

\* C7 witness: a task that had a parent with at least one other child has been deleted.
C7_Witness ==
  /\ Did("deleteTask") /\ lastOp.id \in DOMAIN prev.tasks
  /\ LET P == prev.tasks[lastOp.id].parentId
     IN /\ P # Null /\ P # lastOp.id /\ P \in DOMAIN prev.tasks
        /\ Includes(prev.tasks[P].childrenIds, lastOp.id)
        /\ Len(prev.tasks[P].childrenIds) >= 2
        /\ Len(tasks[P].childrenIds) = Len(prev.tasks[P].childrenIds) - 1

\* C8: deleteTask(id) of an existing task sets selectedTaskId to null if it was id and
\* leaves it unchanged otherwise, and the same for editingTaskId.
C8_DeleteClearsFocus ==
  (Did("deleteTask") /\ lastOp.id \in DOMAIN prev.tasks) =>
    /\ selectedTaskId = (IF prev.selectedTaskId = lastOp.id THEN Null ELSE prev.selectedTaskId)
    /\ editingTaskId = (IF prev.editingTaskId = lastOp.id THEN Null ELSE prev.editingTaskId)

\* C8 witness: the selected task has been deleted.
C8_Witness ==
  /\ Did("deleteTask") /\ lastOp.id \in DOMAIN prev.tasks
  /\ prev.selectedTaskId = lastOp.id
  /\ selectedTaskId = Null

\* C9: deleteTask(id) of an existing task removes only id from the mapping; every other
\* task whose parentId was id stays in the mapping with parentId = id and its childrenIds
\* unchanged, and is not added to rootTaskIds.
C9_DeleteKeepsChildren ==
  (Did("deleteTask") /\ lastOp.id \in DOMAIN prev.tasks) =>
    /\ DOMAIN tasks = DOMAIN prev.tasks \ {lastOp.id}
    /\ \A c \in DOMAIN prev.tasks \ {lastOp.id} :
         prev.tasks[c].parentId = lastOp.id =>
           /\ c \in DOMAIN tasks
           /\ tasks[c].parentId = lastOp.id
           /\ tasks[c].childrenIds = prev.tasks[c].childrenIds
           /\ Includes(rootTaskIds, c) => Includes(prev.rootTaskIds, c)

\* C10: for a task that is incomplete with completedAt null, the first toggleTaskCompletion
\* makes it completed with completedAt the instant of that call, and a second
\* toggleTaskCompletion right after it makes it incomplete with completedAt null again.
C10_ToggleTwiceRestores ==
  (toggleRun.len > 0 /\ ~toggleRun.completed /\ toggleRun.completedAt = Null) =>
    /\ toggleRun.id \in DOMAIN tasks
    /\ toggleRun.len = 1 =>
         /\ tasks[toggleRun.id].completed
         /\ tasks[toggleRun.id].completedAt = toggleRun.firstAt
         /\ toggleRun.firstAt = lastOp.at
    /\ toggleRun.len = 2 =>
         /\ prev.tasks[toggleRun.id].completed
         /\ prev.tasks[toggleRun.id].completedAt = toggleRun.firstAt
         /\ ~tasks[toggleRun.id].completed
         /\ tasks[toggleRun.id].completedAt = Null

\* C10 witness: an incomplete task with completedAt null has been toggled twice in a row.
C10_Witness ==
  /\ toggleRun.len = 2 /\ ~toggleRun.completed /\ toggleRun.completedAt = Null
  /\ Did("toggleTaskCompletion") /\ lastOp.id = toggleRun.id
  /\ ~tasks[toggleRun.id].completed

\* C11: updateTask(id, partial), deleteTask(id) and toggleTaskCompletion(id) with an id
\* that is not in the mapping, removeColumn with the id of no column and deleteTemplate
\* with the id of no template end without an error and leave the whole store (tasks,
\* rootTaskIds, columns, selectedTaskId, editingTaskId, taskTemplates) as it was.
C11_AbsentIdNoOp ==
  /\ (lastOp.op \in {"updateTask", "deleteTask", "toggleTaskCompletion"}
        /\ lastOp.id \notin DOMAIN prev.tasks) =>
       ~lastOp.threw /\ Snapshot = prev
  /\ (Did("removeColumn")
        /\ \A i \in 1..Len(prev.columns) : prev.columns[i].id # lastOp.columnId) =>
       ~lastOp.threw /\ Snapshot = prev
  /\ (Did("deleteTemplate") /\ lastOp.templateId \notin DOMAIN prev.taskTemplates) =>
       ~lastOp.threw /\ Snapshot = prev

\* C11 witness: a sample task that an earlier deleteTask removed is deleted once more,
\* and the store is as before.
C11_Witness ==
  /\ Did("deleteTask") /\ lastOp.id \notin DOMAIN prev.tasks
  /\ lastOp.id \in 1..NumSampleTasks
  /\ Snapshot = prev

\* C12: updateTask(id, partial) of an existing task keeps the task's createdAt, also when
\* partial has a createdAt; every other field of partial replaces the task's field, the
\* task's remaining fields, all other tasks, rootTaskIds and the selection are unchanged.
C12_UpdateKeepsCreatedAt ==
  (Did("updateTask") /\ lastOp.id \in DOMAIN prev.tasks) =>
    LET id == lastOp.id
        partial == lastOp.partial
    IN /\ DOMAIN tasks = DOMAIN prev.tasks
       /\ tasks[id].createdAt = prev.tasks[id].createdAt
       /\ DOMAIN tasks[id] = DOMAIN prev.tasks[id] \cup (DOMAIN partial \ {"createdAt"})
       /\ \A f \in DOMAIN tasks[id] \ {"createdAt"} :
            tasks[id][f] = (IF f \in DOMAIN partial THEN partial[f] ELSE prev.tasks[id][f])
       /\ \A other \in DOMAIN tasks \ {id} : tasks[other] = prev.tasks[other]
       /\ rootTaskIds = prev.rootTaskIds
       /\ selectedTaskId = prev.selectedTaskId
       /\ editingTaskId = prev.editingTaskId

\* C12 witness: an existing task has been updated with a partial that has a title and a
\* createdAt other than the task's; the title is the new one, createdAt the old one.
C12_Witness ==
  /\ Did("updateTask") /\ lastOp.id \in DOMAIN prev.tasks
  /\ "createdAt" \in DOMAIN lastOp.partial
  /\ lastOp.partial.createdAt # prev.tasks[lastOp.id].createdAt
  /\ tasks[lastOp.id].title = lastOp.partial.title
  /\ tasks[lastOp.id].title # prev.tasks[lastOp.id].title
  /\ tasks[lastOp.id].createdAt = prev.tasks[lastOp.id].createdAt

\* the entries of the hierarchy of the last setActiveColumns that get a column: those that
\* were in the mapping with a non-empty childrenIds, in the order of the hierarchy
WithChildren ==
  SelectSeq(lastOp.hierarchy,
            LAMBDA t : t \in DOMAIN prev.tasks /\ prev.tasks[t].childrenIds # <<>>)

Min(a, b) == IF a < b THEN a ELSE b

\* C13: whatever the columns were before, setActiveColumns([]) leaves exactly one column,
\* with level 0 and parentTaskId null, whose taskIds are the ids of rootTaskIds that are
\* in the mapping, in the order of rootTaskIds.
C13_EmptyHierarchyRootColumn ==
  (Did("setActiveColumns") /\ lastOp.hierarchy = <<>>) =>
    /\ Len(columns) = 1
    /\ columns[1].level = 0
    /\ columns[1].parentTaskId = Null
    /\ columns[1].taskIds = Restrict(rootTaskIds, DOMAIN tasks)

\* C13 witness: setActiveColumns([]) has replaced three or more columns by the one root
\* column, which lists the root ids.
C13_Witness ==
  /\ Did("setActiveColumns") /\ lastOp.hierarchy = <<>>
  /\ Len(prev.columns) >= 3
  /\ Len(columns) = 1
  /\ columns[1].taskIds = rootTaskIds /\ rootTaskIds # <<>>

\* C14: for a hierarchy of length N, setActiveColumns leaves at least 1 and at most
\* min(N + 1, 5) columns; when the root column and the entries with children are more than
\* 5, the columns kept are the root column and those of the first 4 such entries.
C14_AtMostFiveColumns ==
  Did("setActiveColumns") =>
    /\ Len(columns) >= 1
    /\ Len(columns) <= Min(Len(lastOp.hierarchy) + 1, MaxColumns)
    /\ (1 + Len(WithChildren) > MaxColumns) =>
         /\ Len(columns) = MaxColumns
         /\ columns[1].parentTaskId = Null
         /\ \A k \in 2..MaxColumns : columns[k].parentTaskId = WithChildren[k - 1]

\* C14 witness: a hierarchy of 5 or more entries that all have children has been
\* projected and 5 columns are kept.
C14_Witness ==
  /\ Did("setActiveColumns")
  /\ Len(WithChildren) >= MaxColumns
  /\ Len(columns) = MaxColumns
  /\ columns[MaxColumns].parentTaskId = WithChildren[MaxColumns - 1]

\* C15 as stated: after the root column setActiveColumns(h) leaves one column for each
\* entry of h, in order, that is in the mapping and has a non-empty childrenIds, with that
\* entry as parentTaskId, its childrenIds restricted to the tasks of the mapping as taskIds,
\* and the column's index (from 0) as level.
C15_ColumnPerEntryWithChildren ==
  Did("setActiveColumns") =>
    /\ Len(columns) = 1 + Len(WithChildren)
    /\ \A k \in 1..Len(columns) : columns[k].level = k - 1
    /\ \A k \in 2..Len(columns) :
         /\ columns[k].parentTaskId = WithChildren[k - 1]
         /\ columns[k].taskIds =
              Restrict(prev.tasks[WithChildren[k - 1]].childrenIds, DOMAIN prev.tasks)

\* C15 amended: the same for the first MaxColumns - 1 such entries only: the root column
\* and the columns of these entries are all the columns there are.
C15_ColumnPerEntryUpToFive ==
  Did("setActiveColumns") =>
    /\ Len(columns) = Min(1 + Len(WithChildren), MaxColumns)
    /\ \A k \in 1..Len(columns) : columns[k].level = k - 1
    /\ \A k \in 2..Len(columns) :
         /\ columns[k].parentTaskId = WithChildren[k - 1]
         /\ columns[k].taskIds =
              Restrict(prev.tasks[WithChildren[k - 1]].childrenIds, DOMAIN prev.tasks)

\* C15 witness: a hierarchy with an entry that gets no column before one that does, whose
\* column has level 1 and lists only those of its children that are in the mapping, one
\* child being absent.
C15_Witness ==
  /\ Did("setActiveColumns")
  /\ Len(lastOp.hierarchy) >= 2
  /\ WithChildren # <<>>
  /\ lastOp.hierarchy[1] # WithChildren[1]
  /\ columns[2].parentTaskId = WithChildren[1]
  /\ columns[2].level = 1
  /\ Len(columns[2].taskIds) < Len(prev.tasks[WithChildren[1]].childrenIds)

\* C16: after addTask of a task with parentId null, every column with parentTaskId null
\* (the root column, when there is one) has the new task's id in its taskIds.
C16_AddRootShowsInRootColumn ==
  (Did("addTask") /\ lastOp.parentId = Null) =>
    \A i \in 1..Len(columns) :
      columns[i].parentTaskId = Null => Includes(columns[i].taskIds, lastOp.id)

\* C17: right after deleteTask(id), whatever the columns were before the call, no column
\* has id in its taskIds.
C17_DeleteLeavesNoColumnEntry ==
  Did("deleteTask") =>
    \A i \in 1..Len(columns) : ~Includes(columns[i].taskIds, lastOp.id)

\* the handlers of the Board that add or delete tasks
MutationHandlers ==
  {"handleDeleteClick", "hotkeyDelete", "hotkeyEnter", "hotkeyCtrlEnter",
   "handleSubmit", "handleTimeSplit", "handleApplyTemplate"}

\* C18: once a handler of the UI that adds or deletes tasks has finished, the columns are
\* those of the tree as it now is: there is a root column, its taskIds are the ids of
\* rootTaskIds that are in the mapping, and no column lists a task that is not in the
\* mapping.
C18_ColumnsFollowMutations ==
  lastOp.op \in MutationHandlers =>
    /\ \E i \in 1..Len(columns) : columns[i].parentTaskId = Null /\ columns[i].level = 0
    /\ \A i \in 1..Len(columns) :
         /\ (columns[i].parentTaskId = Null /\ columns[i].level = 0) =>
              columns[i].taskIds = Restrict(rootTaskIds, DOMAIN tasks)
         /\ Elements(columns[i].taskIds) \subseteq DOMAIN tasks

\* C19: in every state the Board's handlers reach, selectedTaskId and editingTaskId are
\* each null or the id of a task of the mapping.
C19_FocusNamesExistingTask ==
  /\ selectedTaskId \in DOMAIN tasks \cup {Null}
  /\ editingTaskId \in DOMAIN tasks \cup {Null}

\* C20: applyTemplate(templateId, parentId) with a templateId that is not in taskTemplates
\* returns an empty list, without an error, and leaves the whole store as it was.
C20_AbsentTemplateNoOp ==
  (Did("applyTemplate") /\ lastOp.templateId \notin DOMAIN prev.taskTemplates) =>
    /\ ~lastOp.threw
    /\ lastOp.returned = <<>>
    /\ Snapshot = prev

\* C20 witness: a template that deleteTemplate had removed is applied under an existing
\* parent task.
C20_Witness ==
  /\ Did("applyTemplate") /\ lastOp.templateId \notin DOMAIN prev.taskTemplates
  /\ lastOp.templateId \in TemplateIds
  /\ lastOp.parentId \in DOMAIN tasks
  /\ lastOp.returned = <<>>
  /\ Snapshot = prev

\* the task definitions of the template the last applyTemplate was called with
AppliedDefinitions == prev.taskTemplates[lastOp.templateId].tasks

\* the tasks the last operation added to the mapping
AddedTaskIds == DOMAIN tasks \ DOMAIN prev.tasks

\* C21: applyTemplate on an existing template with k top-level definitions adds k new
\* tasks with fresh, pairwise distinct ids, each with parentId the supplied parentId,
\* completed false and completedAt null, and returns these k ids in definition order; with
\* parentId null the ids are appended to rootTaskIds, with an existing parent to that
\* parent's childrenIds.
C21_TemplateAddsTopLevelTasks ==
  (Did("applyTemplate") /\ lastOp.templateId \in DOMAIN prev.taskTemplates) =>
    LET ids == lastOp.returned
        P == lastOp.parentId
    IN /\ ~lastOp.threw
       /\ Len(ids) = Len(AppliedDefinitions)
       /\ \A i \in 1..Len(ids) :
            /\ ids[i] \in AddedTaskIds
            /\ \A j \in 1..Len(ids) : ids[i] = ids[j] => i = j
            /\ tasks[ids[i]].parentId = P
            /\ ~tasks[ids[i]].completed
            /\ tasks[ids[i]].completedAt = Null
       /\ P = Null => rootTaskIds = prev.rootTaskIds \o ids
       /\ (P # Null /\ P \in DOMAIN prev.tasks) =>
            tasks[P].childrenIds = prev.tasks[P].childrenIds \o ids

\* the task id is the materialization of the definition def: its childrenIds are as many
\* added tasks as def has children, each with parentId = id and itself the
\* materialization of the child definition at its place
RECURSIVE Materialized(_, _)
Materialized(def, id) ==
  /\ id \in AddedTaskIds
  /\ Len(tasks[id].childrenIds) = Len(def.children)
  /\ \A j \in 1..Len(def.children) :
       LET child == tasks[id].childrenIds[j]
       IN /\ child \in AddedTaskIds
          /\ tasks[child].parentId = id
          /\ Materialized(def.children[j], child)

\* C22: applyTemplate makes a task of every nested child definition as well: each
\* generated task's childrenIds lists the tasks generated from its definition's children,
\* in definition order, and each of those has the generated parent's id as parentId.
C22_TemplateAddsNestedTasks ==
  (Did("applyTemplate") /\ lastOp.templateId \in DOMAIN prev.taskTemplates) =>
    /\ Len(lastOp.returned) = Len(AppliedDefinitions)
    /\ \A i \in 1..Len(AppliedDefinitions) :
         Materialized(AppliedDefinitions[i], lastOp.returned[i])

\* the document the last import was given
ImportedData == lastOp.data[1]

\* a value that is no mapping: the key is missing, null, or not an object
NotAMapping(v) == v.type \in {"undefined", "null", "string"}

\* a value that is no sequence
NotASequence(v) == v.type # "array"

\* C23: importState(data) returns false and leaves the whole store as it was whenever
\* data.tasks is not a mapping, data.rootTaskIds is not a sequence or data.taskTemplates is
\* not a mapping (the key is missing, null, or not an object).
C23_InvalidDocumentRefused ==
  (Did("importState")
     /\ (\/ NotAMapping(ImportedData.tasks)
         \/ NotASequence(ImportedData.rootTaskIds)
         \/ NotAMapping(ImportedData.taskTemplates))) =>
    /\ ~lastOp.success
    /\ Snapshot = prev

\* data.tasks is a mapping with an entry whose rehydration throws (a null entry)
HasThrowingEntry(data) ==
  /\ data.tasks.type = "object"
  /\ \E id \in DOMAIN data.tasks.value : data.tasks.value[id].type = "null"

\* C24: when the rehydration of an entry of data.tasks throws, importState returns false
\* and tasks, rootTaskIds, taskTemplates, selectedTaskId, editingTaskId and columns all
\* keep their values: an import is applied as a whole or not at all.
C24_ImportAllOrNothing ==
  (lastOp.op \in {"importState", "handleImportChange"} /\ lastOp.called
     /\ HasThrowingEntry(ImportedData)) =>
    /\ ~lastOp.success
    /\ Snapshot = prev

\* C24 witness: importState was given a document that is well-formed but for a null entry
\* after a good one, with root ids other than the store's; the store, which had a selected
\* task and a column, is as it was.
C24_Witness ==
  /\ Did("importState") /\ HasThrowingEntry(ImportedData)
  /\ \E id \in DOMAIN ImportedData.tasks.value : ImportedData.tasks.value[id].type = "object"
  /\ ImportedData.rootTaskIds.type = "array"
  /\ ImportedData.rootTaskIds.value # prev.rootTaskIds
  /\ ImportedData.taskTemplates.type = "object"
  /\ prev.selectedTaskId # Null /\ prev.columns # <<>>
  /\ ~lastOp.success
  /\ Snapshot = prev

\* a document as the application writes them: tasks a mapping of task objects,
\* rootTaskIds a sequence, taskTemplates a mapping
WellFormed(data) ==
  /\ data.tasks.type = "object"
  /\ \A id \in DOMAIN data.tasks.value : data.tasks.value[id].type = "object"
  /\ data.rootTaskIds.type = "array"
  /\ data.taskTemplates.type = "object"

\* C25: importState of a well-formed document returns true, and whenever importState
\* returns true the store's tasks, rootTaskIds and taskTemplates are those of the document
\* (each task with its dates as instants) and nothing else, selectedTaskId and
\* editingTaskId are null and columns is empty; the document with empty tasks, rootTaskIds
\* and taskTemplates gives an empty store.
C25_ImportReplacesStore ==
  Did("importState") =>
    /\ WellFormed(ImportedData) => lastOp.success
    /\ lastOp.success =>
         /\ DOMAIN tasks = DOMAIN ImportedData.tasks.value
         /\ \A id \in DOMAIN tasks :
              ExportedTask(tasks[id]) = ImportedData.tasks.value[id].value
         /\ rootTaskIds = ImportedData.rootTaskIds.value
         /\ taskTemplates = (IF ImportedData.taskTemplates.type = "null" THEN Null
                             ELSE ImportedData.taskTemplates.value)
         /\ selectedTaskId = Null
         /\ editingTaskId = Null
         /\ columns = <<>>

\* C25 witness: a store with a selected task and a column has been replaced by a
\* document with one task that the store did not have; none of the former tasks, root ids
\* and templates is left.
C25_Witness ==
  /\ Did("importState") /\ lastOp.success /\ WellFormed(ImportedData)
  /\ prev.selectedTaskId # Null /\ prev.columns # <<>>
  /\ DOMAIN tasks # {} /\ DOMAIN tasks \cap DOMAIN prev.tasks = {}
  /\ \A id \in DOMAIN tasks : tasks[id].completedAt > tasks[id].createdAt
  /\ rootTaskIds # <<>> /\ Elements(rootTaskIds) \cap Elements(prev.rootTaskIds) = {}
  /\ DOMAIN prev.taskTemplates # {} /\ DOMAIN taskTemplates = {}
  /\ selectedTaskId = Null /\ columns = <<>>

\* the last operation was an import, by the panel or by a call of importState, of the
\* document that handleExport writes for the store as it was before the import
ImportedOwnExport ==
  /\ lastOp.op \in {"importState", "handleImportChange"}
  /\ ImportedData = exportedData(prev.tasks, prev.rootTaskIds, prev.taskTemplates)

\* C26: exporting a store S and importing the exported document gives tasks, rootTaskIds
\* and taskTemplates equal to those of S, every createdAt and completedAt the same
\* instant and a null completedAt still null.
C26_ExportImportRoundTrip ==
  ImportedOwnExport =>
    /\ lastOp.success
    /\ DOMAIN tasks = DOMAIN prev.tasks
    /\ \A id \in DOMAIN tasks :
         /\ tasks[id].createdAt = prev.tasks[id].createdAt
         /\ tasks[id].completedAt = prev.tasks[id].completedAt
         /\ tasks[id] = prev.tasks[id]
    /\ rootTaskIds = prev.rootTaskIds
    /\ taskTemplates = prev.taskTemplates

\* C26 witness: the file written by handleExport has been chosen in the panel and
\* imported into the store it was written from, which has a task completed at an instant
\* that is not the start of a day, a task created at another instant than that, and a task
\* with a null completedAt.
C26_Witness ==
  /\ Did("handleImportChange") /\ ImportedOwnExport /\ lastOp.success
  /\ Includes(downloads, ImportedData)
  /\ \E id \in DOMAIN tasks :
       /\ tasks[id].completedAt # Null
       /\ TimeOfDay(tasks[id].completedAt) # 0
       /\ tasks[id].completedAt # tasks[id].createdAt
       /\ tasks[id].completedAt = prev.tasks[id].completedAt
  /\ \E id \in DOMAIN tasks : tasks[id].completedAt = Null /\ prev.tasks[id].completedAt = Null

\* the version of the document the last import was given is not the application's
OtherVersion == ImportedData.version # CURRENT_DATA_VERSION

\* C27: the panel hands a document of another version to importState only when the user
\* has confirmed; when the user declines, importState is not called and the store is as
\* it was; and what importState returns does not depend on the version of the document.
C27_OtherVersionNeedsConfirmation ==
  /\ (Did("handleImportChange") /\ OtherVersion) =>
       /\ lastOp.called => lastOp.proceed
       /\ ~lastOp.proceed => (~lastOp.called /\ ~lastOp.success /\ Snapshot = prev)
  /\ Did("importState") =>
       lastOp.success =
         importStateSucceeds([ImportedData EXCEPT !.version = CURRENT_DATA_VERSION])

\* C27 witness: the user has declined the import of a well-formed document of another
\* version, with other tasks than the store's; importState was not called and the store
\* is as it was.
C27_Witness ==
  /\ Did("handleImportChange") /\ OtherVersion /\ ImportedData.version # Null
  /\ ~lastOp.proceed /\ ~lastOp.called
  /\ WellFormed(ImportedData)
  /\ DOMAIN ImportedData.tasks.value # DOMAIN tasks
  /\ Snapshot = prev

Selectors ==
  {"getCompletedTasksTotalCount", "getTasksCompletedTodayCount",
   "getTasksCompletedThisWeekCount", "getTasksCompletedThisMonthCount"}

\* the latest instant up to `at`, at most `days` days back, that is 00:00 of a day and
\* satisfies Is
LatestDayStart(at, days, Is(_)) ==
  CHOOSE s \in (at - days * TicksPerDay + 1)..at :
    /\ s % TicksPerDay = 0 /\ Is(s)
    /\ \A later \in (s + 1)..at : ~(later % TicksPerDay = 0 /\ Is(later))

StartOfDay(at) == LatestDayStart(at, 1, LAMBDA s : TRUE)
StartOfMonday(at) == LatestDayStart(at, 7, LAMBDA s : getDay(s) = 1)
StartOfMonth(at) == LatestDayStart(at, 31, LAMBDA s : Civil(s).date = 1)

\* the number of tasks that were completed with a completedAt at or after start
CompletedFrom(start) ==
  Cardinality({id \in DOMAIN prev.tasks :
                 /\ prev.tasks[id].completed
                 /\ prev.tasks[id].completedAt # Null
                 /\ prev.tasks[id].completedAt >= start})

\* C28: getCompletedTasksTotalCount returns the number of tasks with completed = true;
\* the today, this-week and this-month counts are the numbers of tasks with completed =
\* true and a completedAt at or after 00:00 of the current day, of the most recent Monday
\* and of the first day of the current month; none of the four changes the store.
C28_CountsOfCompletedTasks ==
  /\ Did("getCompletedTasksTotalCount") =>
       lastOp.returned =
         <<Cardinality({id \in DOMAIN prev.tasks : prev.tasks[id].completed})>>
  /\ Did("getTasksCompletedTodayCount") =>
       lastOp.returned = <<CompletedFrom(StartOfDay(lastOp.at))>>
  /\ Did("getTasksCompletedThisWeekCount") =>
       lastOp.returned = <<CompletedFrom(StartOfMonday(lastOp.at))>>
  /\ Did("getTasksCompletedThisMonthCount") =>
       lastOp.returned = <<CompletedFrom(StartOfMonth(lastOp.at))>>
  /\ lastOp.op \in Selectors => Snapshot = prev

\* C28 witness: the this-week count has been taken with one task completed at 00:00 of
\* the Monday, which it counts, and another completed the tick before, which it does not.
C28_Witness ==
  /\ Did("getTasksCompletedThisWeekCount")
  /\ \E id \in DOMAIN tasks :
       tasks[id].completed /\ tasks[id].completedAt = StartOfMonday(lastOp.at)
  /\ \E id \in DOMAIN tasks :
       tasks[id].completed /\ tasks[id].completedAt = StartOfMonday(lastOp.at) - 1
  /\ lastOp.returned = <<1>>

\* C29: for every day of the week d in 0..6 (0 is Sunday) the number of days the
\* this-week count goes back from today, d = 0 ? 6 : d - 1, is (d + 6) % 7; the week start
\* is 00:00 of a Monday at most 6 days before today, and on a Sunday the Monday 6 days
\* before.
C29_WeekStartsOnMonday ==
  /\ \A d \in 0..6 : daysBackToMonday(d) = (d + 6) % 7
  /\ Did("getTasksCompletedThisWeekCount") =>
       LET at == lastOp.at
           back == DayOf(at) - DayOf(weekStart(at))
       IN /\ getDay(weekStart(at)) = 1
          /\ TimeOfDay(weekStart(at)) = 0
          /\ back \in 0..6
          /\ back = (getDay(at) + 6) % 7
          /\ getDay(at) = 0 => back = 6

\* C29 witness: the this-week count has been taken on a Sunday that is the first day of a
\* month; the week started on the Monday 6 days before, in the month before.
C29_Witness ==
  /\ Did("getTasksCompletedThisWeekCount")
  /\ getDay(lastOp.at) = 0
  /\ Civil(lastOp.at).date = 1
  /\ DayOf(lastOp.at) - DayOf(weekStart(lastOp.at)) = 6
  /\ Civil(weekStart(lastOp.at)).month # Civil(lastOp.at).month

\* the printRaw calls that have been made and have not returned
PendingCalls == printer.calls

\* C30: at most one printRaw transfer is in flight at a time: a second call made while
\* the first has not completed either waits for it or returns false without sending,
\* so the device is never given a transfer while another one has not settled.
C30_OneTransferInFlight == Cardinality(inFlight(PendingCalls)) <= 1

\* the last step was the end of a transfer that failed, or of the clearHalt after it
TransferRejected == lastOp.op = "transferOut rejected"
UnstallEnded == lastOp.op \in {"clearHalt", "clearHalt failed"}

\* the printRaw call that returned last
LastCall == printer.last

\* C31: when the transfer to the device fails, printRaw returns false to the caller,
\* never sends the data again and tries at most once to clear the stalled endpoint; when
\* that attempt fails too, printRaw still returns false and throws nothing.
C31_FailedTransferReturnsFalse ==
  /\ \A i \in 1..Len(PendingCalls) :
       PendingCalls[i].transfers = 1 /\ PendingCalls[i].clearHalts <= 1
  /\ TransferRejected =>
       /\ ~lastOp.threw
       /\ \/ lastOp.returned = <<FALSE>> /\ LastCall.transfers = 1 /\ LastCall.clearHalts = 0
          \/ /\ lastOp.returned = <<>>
             /\ \E i \in 1..Len(PendingCalls) : PendingCalls[i].awaits = "clearHalt"
  /\ UnstallEnded =>
       /\ ~lastOp.threw /\ lastOp.returned = <<FALSE>>
       /\ LastCall.transfers = 1 /\ LastCall.clearHalts = 1

C31_Witness ==
  /\ lastOp.op = "clearHalt failed" /\ lastOp.returned = <<FALSE>>
  /\ LastCall.clearHalts = 1

\* the four operations of the store that change tasks
TaskMutations == {"addTask", "updateTask", "deleteTask", "toggleTaskCompletion"}

AddedTask == Task(lastOp.id, "sample", FALSE, lastOp.parentId, <<>>, lastOp.at, Null)

\* the last operation was addTask(T) with a T.parentId that named no task of the mapping
AddedUnderAbsentParent ==
  /\ lastOp.op = "addTask"
  /\ lastOp.parentId # Null /\ lastOp.parentId \notin DOMAIN prev.tasks

\* C33: addTask(T) where T.parentId is non-null and names no task in the mapping raises
\* no error, inserts T into the mapping, does not add T.id to rootTaskIds and changes no
\* other task: the mapping is the one before with T put under T.id.
C33_AddUnderAbsentParent ==
  AddedUnderAbsentParent =>
    /\ ~lastOp.threw
    /\ tasks = Put(prev.tasks, lastOp.id, AddedTask)
    /\ rootTaskIds = prev.rootTaskIds

\* the events of the Board whose handlers pass a hierarchy to setActiveColumns
Projecting == {"handleTaskClick", "handleTitleClick", "hotkeyDelete", "hotkeyEnter",
               "hotkeyCtrlEnter"}

\* hierarchy is an ancestor chain of the tree ts
IsAncestorChain(hierarchy, ts) ==
  \A i \in 1..Len(hierarchy) :
    /\ hierarchy[i] \in DOMAIN ts
    /\ ts[hierarchy[i]].parentId = (IF i = 1 THEN Null ELSE hierarchy[i - 1])

\* C34: every hierarchy the Board passes to setActiveColumns (on task click, Delete,
\* Enter and Ctrl+Enter) is an ancestor chain of the current tree: every entry is in the
\* mapping, the first is a root task and each later entry's parentId is the entry before.
C34_BoardPassesAncestorChains ==
  lastOp.op \in Projecting => IsAncestorChain(lastOp.hierarchy, tasks)

\* C35: the tasks of the store enter it incomplete with no completedAt (or, the one
\* completed task of the sample data, completed with its completedAt) and only
\* toggleTaskCompletion changes these fields afterwards, any number of times, among adds
\* and deletes: completed is true exactly when completedAt is not null, in every state.
C35_CompletedIffCompletedAt ==
  \A id \in DOMAIN tasks : tasks[id].completed <=> tasks[id].completedAt # Null

C35_Witness ==
  /\ lastOp.op = "toggleTaskCompletion" /\ toggleRun.len = 2
  /\ lastOp.id \in DOMAIN tasks
  /\ ~toggleRun.completed /\ ~tasks[lastOp.id].completed

\* the four statistics of the store as it is, at the instant now
TodayCount == completedSince(tasks, todayStart(now))
WeekCount == completedSince(tasks, weekStart(now))
MonthCount == completedSince(tasks, monthStart(now))
TotalCount == Cardinality({id \in DOMAIN tasks : tasks[id].completed})

\* C36: for every task mapping and every instant the statistics are nested: the today
\* count is at most the this-week count and at most the this-month count, and each of
\* these is at most the total count of completed tasks.
C36_StatisticsNested ==
  /\ TodayCount <= WeekCount /\ WeekCount <= TotalCount
  /\ TodayCount <= MonthCount /\ MonthCount <= TotalCount

C36_Witness ==
  /\ lastOp.op = "getTasksCompletedTodayCount" /\ lastOp.returned = <<TodayCount>>
  /\ 1 <= TodayCount /\ TodayCount < WeekCount /\ TodayCount < MonthCount

\* C37: for every hierarchy passed to setActiveColumns, the ids of the columns it
\* produces are pairwise distinct, so that a column looked up by its id is the column of
\* that level and no other.
C37_ColumnIdsDistinct ==
  lastOp.op = "setActiveColumns" =>
    \A i, j \in 1..Len(columns) : columns[i].id = columns[j].id => i = j

\* the tasks the last handler created
CreatedTaskIds == DOMAIN tasks \ DOMAIN prev.tasks

\* the sum of the estimatedMinutes of the tasks ids
RECURSIVE TotalMinutes(_)
TotalMinutes(ids) ==
  IF ids = {} THEN 0
  ELSE LET id == CHOOSE x \in ids : TRUE
       IN tasks[id].estimatedMinutes + TotalMinutes(ids \ {id})

\* C38: for positive integers totalSplitTime and splitUnitTime the time split creates
\* ceil(totalSplitTime / splitUnitTime) tasks (the least number of units that cover the
\* total) under the given parent, each with estimatedMinutes between 1 and
\* splitUnitTime, and their estimatedMinutes sum to exactly totalSplitTime.
C38_TimeSplitCoversTotal ==
  Did("handleTimeSplit") =>
    LET total == lastOp.partial.totalSplitTime
        unit == lastOp.partial.splitUnitTime
        n == Cardinality(CreatedTaskIds)
    IN /\ n * unit >= total /\ (n - 1) * unit < total
       /\ \A id \in CreatedTaskIds :
            /\ tasks[id].parentId = lastOp.parentId
            /\ 1 <= tasks[id].estimatedMinutes /\ tasks[id].estimatedMinutes <= unit
       /\ TotalMinutes(CreatedTaskIds) = total

C38_Witness ==
  /\ Did("handleTimeSplit") /\ lastOp.parentId # Null
  /\ Cardinality(CreatedTaskIds) = 2
  /\ lastOp.partial.totalSplitTime % lastOp.partial.splitUnitTime # 0

\* PrintSettings' isConnected is false exactly before any connect, after a connect that
\* returned false and after a disconnect
NeverOrNoLongerConnected == ~printer.isConnected

PrintHandlers == {"handleTestPrint", "handlePrintColumn"}

\* C39: whenever the printer service is not connected, isConnected() is false and
\* printRaw returns false without sending anything to a device; before any connect,
\* after a connect that returned false and after a disconnect the service is not
\* connected and holds no device and no output endpoint.
C39_NotConnectedSendsNothing ==
  /\ ~serviceIsConnected(printer) =>
       /\ printRawReturned(printer) = <<FALSE>>
       /\ \A handler \in PrintHandlers :
            inFlight(printRaw(printer, handler).calls) = inFlight(PendingCalls)
  /\ NeverOrNoLongerConnected =>
       /\ ~serviceIsConnected(printer)
       /\ printer.device = "null" /\ ~printer.endpointOut
  /\ lastOp.op \in PrintHandlers /\ lastOp.returned = <<FALSE>> => LastCall.transfers = 0

C39_Witness ==
  /\ lastOp.op = "handleConnect" /\ lastOp.returned = <<FALSE>>
  /\ printer.interfaceNumber /\ printer.device = "null" /\ ~printer.endpointOut

====
